---- MODULE Spec2Model ----
(***************************************************************************)
(* Model of the provider agent's Payments actor                            *)
(* (agent/provider/src/payments/payments.rs) and of its two event pollers. *)
(*                                                                         *)
(* The Payments actor is an actix actor: every handler runs to completion  *)
(* on the actor's state, and the futures a handler returns with            *)
(* ActorResponse::r#async run inside the actor's context, interleaved with *)
(* other handlers at every .await.  Each such future, and each message in  *)
(* flight to the actor, is one element of the bag `tasks`; its field `pc`  *)
(* is the await it is suspended at.                                        *)
(***************************************************************************)
EXTENDS Integers, Sequences, FiniteSets, Bags, TLC

(***************************************************************************)
(* Bounds of the model.                                                    *)
(***************************************************************************)
MaxEvents == 4      \* accepted AgreementApproved, ActivityCreated, AgreementClosed
                    \* and AgreementBroken events in a run
MaxSettles == 1     \* InvoiceSettled events in a run
MaxAccepts == 1     \* InvoiceAccepted events in a run
MaxReplays == 1     \* replays of an invoice's InvoiceSettled after it was processed
MaxFailures == 1    \* failed calls (activity API, payment API, tracker) in a run
MaxCost == 2        \* largest cost the payment model reports

Agreements == {"A1", "A2"}
ActivityIds == {"X1", "X2"}
Costs == 1..MaxCost

NoId == "none"

\* The agreements' descriptors: A1 carries a payment deadline duration, A2 none.
HasDeadline(a) == a = "A1"

VARIABLES
    agreements,      \* Payments.agreements: agreement id -> AgreementPayment
    invoices_to_pay, \* Payments.invoices_to_pay: sequence of invoice ids
    earnings,        \* Payments.earnings
    panicked,        \* the actor's task has unwound from a panic
    tasks,           \* bag of messages in flight and futures of the actor
    invoices,        \* payment API: issued invoices, invoice id = index
    nextWatch,       \* number of AgreementPayment records constructed so far
    count,           \* events and failures used up so far (for the bounds)
    finalNotes       \* history: final debit notes issued and sent, per activity

engineVars == <<agreements, invoices_to_pay, earnings, panicked, tasks, invoices,
                nextWatch, count, finalNotes>>

VARIABLES
    now,             \* the clock of the payment service
    events,          \* payment API: the invoice and the debit note events, oldest first
    after_timestamp, \* check_invoice_events: after_timestamp
    lather_than,     \* check_debit_notes_events: lather_than
    pollPc,          \* the await each poller is suspended at
    batch,           \* check_debit_notes_events: the events of the batch not yet iterated
    dispatched,      \* history: per poller and event, how often the loop body ran for it
    outbox           \* history: messages the pollers sent, in order

pollVars == <<now, events, after_timestamp, lather_than, pollPc, batch, dispatched, outbox>>

VARIABLES
    offers,          \* OfferDao: the state get_offer_state returns for each offer id
    own,             \* history: ids subscribed on this node with subscribe_offer
    inflight,        \* matcher futures suspended at their second DAO or discovery call
    msg,             \* the call or inbound message handled last
    reply,           \* the value returned last
    propagated,      \* history: Propagate::True returned by on_offer_received, per id
    gone,            \* history: ids whose record was unsubscribed, expired or removed
    gossipUnsubscribed, \* history: ids on_offer_unsubscribed answered Propagate::True for
    broadcasts,      \* history: broadcasts discovery accepted, per id and kind
    calls            \* calls and failures used up so far (for the bounds)

matcherVars == <<offers, own, inflight, msg, reply, propagated, gone, gossipUnsubscribed,
                 broadcasts, calls>>

VARIABLES
    clock,           \* the Deadline Tracker's clock
    entries,         \* DeadlineChecker: item id -> deadline of its live entry, 0 if none
    note,            \* each debit note: where send_debit_note and the requestor are with it
    elapsed,         \* history: DeadlineElapsed delivered to the Payments actor, per item
    lifetimes,       \* history: entries created, stopped and replaced, per item
    acceptedInTime   \* history: notes whose DebitNoteAccepted the poller processed in time

deadlineVars == <<clock, entries, note, elapsed, lifetimes, acceptedInTime>>

VARIABLES
    container,       \* TransferService.providers has the "container" provider
    vols,            \* ContainerTransferProvider.vols
    container_path,  \* the path resolve_path was called with last
    resolved         \* the value resolve_path returned last

transferVars == <<container, vols, container_path, resolved>>

VARIABLES
    settled          \* history: bag of the invoice ids whose InvoiceSettled was processed

settledVars == <<settled>>

VARIABLES
    abort_handles,   \* TransferService.abort_handles
    transfers,       \* each transfer's future: the await it is suspended at, or how it ended
    aborted          \* the abort handles AbortHandle::abort was called on

abortVars == <<abort_handles, transfers, aborted>>

VARIABLES
    stores,          \* per node, OfferDao: the state get_offer_state returns for the offer
    wire,            \* per node, OfferReceived messages for the offer on their way to it
    saving,          \* per node, on_offer_received futures suspended at create_offer
    forwarded,       \* history: per node, the Propagate::True its handler returned
    origin,          \* history: the node whose agent called subscribe_offer
    faults           \* failed DAO and discovery calls so far (for the bound)

gossipVars == <<stores, wire, saving, forwarded, origin, faults>>

otherThanPayments == <<pollVars, matcherVars, deadlineVars, transferVars, abortVars, gossipVars>>
otherThanEngine == <<otherThanPayments, settledVars>>
otherThanPoll ==
    <<engineVars, matcherVars, deadlineVars, transferVars, settledVars, abortVars, gossipVars>>
otherThanMatcher ==
    <<engineVars, pollVars, deadlineVars, transferVars, settledVars, abortVars, gossipVars>>
otherThanDeadline ==
    <<engineVars, pollVars, matcherVars, transferVars, settledVars, abortVars, gossipVars>>
otherThanTransfer ==
    <<engineVars, pollVars, matcherVars, deadlineVars, settledVars, abortVars, gossipVars>>
otherThanAbort ==
    <<engineVars, pollVars, matcherVars, deadlineVars, transferVars, settledVars, gossipVars>>
otherThanGossip ==
    <<engineVars, pollVars, matcherVars, deadlineVars, transferVars, settledVars, abortVars>>

(***************************************************************************)
(* Agreement ledger (agreement.rs).                                        *)
(***************************************************************************)
Phases == {"Absent", "Running", "Destroyed", "Finalized"}

\* An agreement id with no entry in the map.
NotTracked ==
    [tracked |-> FALSE, activities |-> [x \in ActivityIds |-> "Absent"],
     cost |-> [x \in ActivityIds |-> 0], payment_deadline |-> FALSE, watch |-> 0]

\* AgreementPayment::new
NewAgreementPayment(deadline, w) ==
    [tracked |-> TRUE, activities |-> [x \in ActivityIds |-> "Absent"],
     cost |-> [x \in ActivityIds |-> 0], payment_deadline |-> deadline, watch |-> w]

Tracked(a) == agreements[a].tracked

\* A faulty add_created_activity: a duplicate starts the activity afresh.
add_created_activity_afresh(agreement, x) ==
    [agreement EXCEPT !.activities[x] = "Running"]

\* AgreementPayment::add_created_activity: inserts Running, fails on a duplicate.
add_created_activity(agreement, x) ==
    IF agreement.activities[x] = "Absent"
    THEN [agreement EXCEPT !.activities[x] = "Running"]
    ELSE agreement

\* AgreementPayment::activity_destroyed succeeds only from Running.
activity_destroyed_ok(agreement, x) == agreement.activities[x] = "Running"

activity_destroyed(agreement, x) == [agreement EXCEPT !.activities[x] = "Destroyed"]

\* AgreementPayment::finish_activity: Destroyed -> Finalized{cost}, an error otherwise.
finish_activity(agreement, x, c) ==
    IF agreement.activities[x] = "Destroyed"
    THEN [agreement EXCEPT !.activities[x] = "Finalized", !.cost[x] = c]
    ELSE agreement

\* AgreementPayment::list_activities
list_activities(agreement) == {x \in ActivityIds : agreement.activities[x] = "Finalized"}

RECURSIVE SumCost(_, _)
SumCost(costOf, S) ==
    IF S = {} THEN 0
    ELSE LET x == CHOOSE y \in S : TRUE IN costOf[x] + SumCost(costOf, S \ {x})

\* AgreementPayment::cost_summary
cost_summary(agreement) == SumCost(agreement.cost, list_activities(agreement))

\* ActivitiesWaiter::wait_for_finish on the watch numbered w of agreement a.
wait_for_finish(a, w) ==
    /\ Tracked(a)
    /\ agreements[a].watch = w
    /\ \A x \in ActivityIds : agreements[a].activities[x] \in {"Absent", "Finalized"}

(***************************************************************************)
(* Tasks.                                                                  *)
(***************************************************************************)
Task(kind, pc, a, x, c, ids, n, dl) ==
    [kind |-> kind, pc |-> pc, agreement_id |-> a, activity_id |-> x, cost |-> c,
     activities |-> ids, id |-> n, payment_deadline |-> dl]

Spawn(t) == tasks (+) SetToBag({t})
Step(t, u) == (tasks (-) SetToBag({t})) (+) SetToBag({u})
Finish(t) == tasks (-) SetToBag({t})
TasksOf(kind, pc) == {t \in BagToSet(tasks) : t.kind = kind /\ t.pc = pc}

Used(what) == [count EXCEPT ![what] = @ + 1]
CanFail == count["failures"] < MaxFailures
CanAccept == count["events"] < MaxEvents

(***************************************************************************)
(* Payments::new                                                           *)
(***************************************************************************)
EngineInit ==
    /\ agreements = [a \in Agreements |-> NotTracked]
    /\ invoices_to_pay = << >>
    /\ earnings = 0
    /\ panicked = FALSE
    /\ tasks = EmptyBag
    /\ invoices = << >>
    /\ nextWatch = 0
    /\ count = [k \in {"events", "settled", "accepted", "failures"} |-> 0]
    /\ finalNotes = [k \in Agreements \X ActivityIds |-> [issued |-> 0, sent |-> 0]]

(***************************************************************************)
(* Handlers of the inbound control events.                                 *)
(***************************************************************************)
\* Payments::on_signed_agreement, Ok branch of AgreementPayment::new.
AgreementApproved(a) ==
    /\ ~panicked
    /\ CanAccept
    /\ nextWatch' = nextWatch + 1
    /\ count' = Used("events")
    /\ agreements' = [agreements EXCEPT ![a] = NewAgreementPayment(HasDeadline(a), nextWatch + 1)]
    /\ UNCHANGED <<invoices_to_pay, earnings, panicked, tasks, invoices, finalNotes>>
    /\ UNCHANGED otherThanEngine

\* Handler<ActivityCreated>, the agreement is tracked.
ActivityCreated(a, x) ==
    /\ ~panicked
    /\ CanAccept
    /\ Tracked(a)
    /\ agreements' = [agreements EXCEPT ![a] = add_created_activity(@, x)]
    /\ tasks' = Spawn(Task("UpdateCost", "later", a, x, 0, {}, 0, FALSE))
    /\ count' = Used("events")
    /\ UNCHANGED <<invoices_to_pay, earnings, panicked, invoices, nextWatch, finalNotes>>
    /\ UNCHANGED otherThanEngine

\* Handler<ActivityCreated>, the agreement is not tracked: a warning is logged and
\* an error is the reply.
ActivityCreatedNotRegistered(a, x) ==
    /\ ~panicked
    /\ CanAccept
    /\ ~Tracked(a)
    /\ count' = Used("events")
    /\ UNCHANGED <<agreements, invoices_to_pay, earnings, panicked, tasks, invoices, nextWatch,
                   finalNotes>>
    /\ UNCHANGED otherThanEngine

\* Handler<ActivityDestroyed>, the agreement is tracked: the transition, then the
\* final debit note's future; or, when activity_destroyed fails, the panic of
\* unwrap(), which unwinds the actor's task and drops its mailbox and its futures.
ActivityDestroyed(a, x) ==
    /\ ~panicked
    /\ Tracked(a)
    /\ IF activity_destroyed_ok(agreements[a], x)
       THEN /\ agreements' = [agreements EXCEPT ![a] = activity_destroyed(@, x)]
            /\ tasks' = Spawn(Task("Final", "cost", a, x, 0, {}, agreements[a].watch,
                                   agreements[a].payment_deadline))
            /\ UNCHANGED panicked
       ELSE /\ panicked' = TRUE
            /\ tasks' = EmptyBag
            /\ UNCHANGED agreements
    /\ UNCHANGED <<invoices_to_pay, earnings, invoices, nextWatch, count, finalNotes>>
    /\ UNCHANGED otherThanEngine

(***************************************************************************)
(* Debit notes: compute_cost_and_send_debit_note and send_debit_note, as   *)
(* run by an UpdateCost tick (payment_deadline None) and by the final      *)
(* debit note's loop.                                                      *)
(***************************************************************************)
DebitTasks(pc) == TasksOf("UpdateCost", pc) \cup TasksOf("Final", pc)

\* The debit note went out.  UpdateCost: the map closure schedules the next tick.
\* Final: the loop breaks and FinalizeActivity is sent to the actor.
DebitNoteDone(t) ==
    IF t.kind = "UpdateCost"
    THEN [t EXCEPT !.pc = "later", !.cost = 0]
    ELSE [t EXCEPT !.pc = "finalize"]

\* A faulty DebitNoteFailed: an UpdateCost tick is rescheduled only on success.
DebitNoteFailedStops(t) ==
    IF t.kind = "UpdateCost"
    THEN [t EXCEPT !.pc = "stopped", !.cost = 0]
    ELSE [t EXCEPT !.pc = "cost", !.cost = 0]

\* compute_cost_and_send_debit_note returned Err.  UpdateCost: the map closure logs
\* and schedules the next tick.  Final: sleep invoice_resend_interval, loop again.
DebitNoteFailed(t) ==
    IF t.kind = "UpdateCost"
    THEN [t EXCEPT !.pc = "later", !.cost = 0]
    ELSE [t EXCEPT !.pc = "cost", !.cost = 0]

NoteIssued(t) ==
    IF t.kind = "Final"
    THEN [finalNotes EXCEPT ![<<t.agreement_id, t.activity_id>>].issued = @ + 1]
    ELSE finalNotes

NoteSent(t) ==
    IF t.kind = "Final"
    THEN [finalNotes EXCEPT ![<<t.agreement_id, t.activity_id>>].sent = @ + 1]
    ELSE finalNotes

\* A faulty AfterSend: the deadline of every debit note is registered.
AfterSendTracks(t) == [t EXCEPT !.pc = "track"]

\* After send_debit_note's send: TrackDeadline only if the note carries a deadline.
AfterSend(t) ==
    IF t.payment_deadline THEN [t EXCEPT !.pc = "track"] ELSE DebitNoteDone(t)

\* A faulty StillRunning: the chain goes on for any activity of the agreement.
StillKnown(t) ==
    /\ Tracked(t.agreement_id)
    /\ agreements[t.agreement_id].activities[t.activity_id] # "Absent"

\* Handler<UpdateCost>: the agreement is found and the activity is Running.
StillRunning(t) ==
    /\ Tracked(t.agreement_id)
    /\ agreements[t.agreement_id].activities[t.activity_id] = "Running"

\* Handler<UpdateCost>: the tick scheduled with notify_later arrives.
UpdateCost(t) ==
    /\ ~panicked
    /\ t \in TasksOf("UpdateCost", "later")
    /\ tasks' = IF StillRunning(t)
                THEN Step(t, [t EXCEPT !.pc = "cost"])
                ELSE Finish(t)
    /\ UNCHANGED <<agreements, invoices_to_pay, earnings, panicked, invoices, nextWatch,
                   count, finalNotes>>
    /\ UNCHANGED otherThanEngine

\* compute_cost returned Ok(cost_info).  An UpdateCost tick drops the cost once the
\* note is out (_cost), so only the final note's task keeps it.
ComputeCostOk(t, c) ==
    /\ ~panicked
    /\ t \in DebitTasks("cost")
    /\ tasks' = Step(t, [t EXCEPT !.pc = "issue", !.cost = IF t.kind = "Final" THEN c ELSE 0])
    /\ UNCHANGED <<agreements, invoices_to_pay, earnings, panicked, invoices, nextWatch,
                   count, finalNotes>>
    /\ UNCHANGED otherThanEngine

IssueDebitNoteOk(t) ==
    /\ ~panicked
    /\ t \in DebitTasks("issue")
    /\ tasks' = Step(t, [t EXCEPT !.pc = "send"])
    /\ finalNotes' = NoteIssued(t)
    /\ UNCHANGED <<agreements, invoices_to_pay, earnings, panicked, invoices, nextWatch, count>>
    /\ UNCHANGED otherThanEngine

SendDebitNoteOk(t) ==
    /\ ~panicked
    /\ t \in DebitTasks("send")
    /\ tasks' = Step(t, AfterSend(t))
    /\ finalNotes' = NoteSent(t)
    /\ UNCHANGED <<agreements, invoices_to_pay, earnings, panicked, invoices, nextWatch, count>>
    /\ UNCHANGED otherThanEngine

TrackDeadlineOk(t) ==
    /\ ~panicked
    /\ t \in DebitTasks("track")
    /\ tasks' = Step(t, DebitNoteDone(t))
    /\ UNCHANGED <<agreements, invoices_to_pay, earnings, panicked, invoices, nextWatch,
                   count, finalNotes>>
    /\ UNCHANGED otherThanEngine

\* Any of the four awaits returns an error.
DebitNoteErr(t) ==
    /\ ~panicked
    /\ CanFail
    /\ t \in DebitTasks("cost") \cup DebitTasks("issue") \cup DebitTasks("send")
             \cup DebitTasks("track")
    /\ tasks' = Step(t, DebitNoteFailed(t))
    /\ count' = Used("failures")
    /\ UNCHANGED <<agreements, invoices_to_pay, earnings, panicked, invoices, nextWatch,
                   finalNotes>>
    /\ UNCHANGED otherThanEngine

\* Handler<FinalizeActivity>
FinalizeActivity(t) ==
    /\ ~panicked
    /\ t \in TasksOf("Final", "finalize")
    /\ agreements' = IF Tracked(t.agreement_id)
                     THEN [agreements EXCEPT ![t.agreement_id] =
                               finish_activity(@, t.activity_id, t.cost)]
                     ELSE agreements
    /\ tasks' = Finish(t)
    /\ UNCHANGED <<invoices_to_pay, earnings, panicked, invoices, nextWatch, count, finalNotes>>
    /\ UNCHANGED otherThanEngine

(***************************************************************************)
(* Closing an agreement: AgreementClosed, AgreementBroken, the invoice.    *)
(***************************************************************************)
\* The future Handler<AgreementClosed> returns, at wait_for_finish on a clone of
\* the agreement's activities_watch.
ClosedFuture(a) ==
    Task("AgreementClosed", "wait", a, NoId, 0, {}, agreements[a].watch, FALSE)

\* Handler<AgreementClosed> for an event of the task manager, the agreement is tracked.
AgreementClosed(a) ==
    /\ ~panicked
    /\ CanAccept
    /\ Tracked(a)
    /\ tasks' = Spawn(ClosedFuture(a))
    /\ count' = Used("events")
    /\ UNCHANGED <<agreements, invoices_to_pay, earnings, panicked, invoices, nextWatch,
                   finalNotes>>
    /\ UNCHANGED otherThanEngine

\* Handler<AgreementBroken>, the agreement is tracked: AgreementClosed is sent to self.
AgreementBroken(a) ==
    /\ ~panicked
    /\ CanAccept
    /\ Tracked(a)
    /\ tasks' = Spawn(Task("AgreementClosed", "queued", a, NoId, 0, {}, 0, FALSE))
    /\ count' = Used("events")
    /\ UNCHANGED <<agreements, invoices_to_pay, earnings, panicked, invoices, nextWatch,
                   finalNotes>>
    /\ UNCHANGED otherThanEngine

\* A faulty Normalized: the broken agreement's future does not wait for its
\* activities.
NormalizedNoWait(t) == [ClosedFuture(t.agreement_id) EXCEPT !.pc = "summary"]

\* AgreementClosed{agreement_id, send_terminate: false}, handled by
\* Handler<AgreementClosed>: the future it returns.
Normalized(t) == ClosedFuture(t.agreement_id)

\* Handler<AgreementClosed> for the message Handler<AgreementBroken> sent.
AgreementClosedSent(t) ==
    /\ ~panicked
    /\ t \in TasksOf("AgreementClosed", "queued")
    /\ tasks' = IF Tracked(t.agreement_id)
                THEN Step(t, Normalized(t))
                ELSE Finish(t)
    /\ UNCHANGED <<agreements, invoices_to_pay, earnings, panicked, invoices, nextWatch,
                   count, finalNotes>>
    /\ UNCHANGED otherThanEngine

\* activities_watch.wait_for_finish() returns; GetAgreementSummary is sent to self.
WaitForFinish(t) ==
    /\ ~panicked
    /\ t \in TasksOf("AgreementClosed", "wait")
    /\ wait_for_finish(t.agreement_id, t.id)
    /\ tasks' = Step(t, [t EXCEPT !.pc = "summary"])
    /\ UNCHANGED <<agreements, invoices_to_pay, earnings, panicked, invoices, nextWatch,
                   count, finalNotes>>
    /\ UNCHANGED otherThanEngine

\* Handler<GetAgreementSummary>; on Ok the future sends IssueInvoice{costs_summary}.
GetAgreementSummary(t) ==
    /\ ~panicked
    /\ t \in TasksOf("AgreementClosed", "summary")
    /\ tasks' = IF Tracked(t.agreement_id)
                THEN Step(t, [t EXCEPT !.pc = "issue",
                                       !.cost = cost_summary(agreements[t.agreement_id]),
                                       !.activities = list_activities(agreements[t.agreement_id])])
                ELSE Finish(t)
    /\ UNCHANGED <<agreements, invoices_to_pay, earnings, panicked, invoices, nextWatch,
                   count, finalNotes>>
    /\ UNCHANGED otherThanEngine

\* A faulty NewInvoice: the amount is not taken from the summary.
NewInvoiceNoAmount(t) ==
    [agreement_id |-> t.agreement_id, activity_ids |-> t.activities, amount |-> 0,
     watch |-> t.id, sent |-> FALSE]

\* Handler<IssueInvoice>: the NewInvoice built from the message.
NewInvoice(t) ==
    [agreement_id |-> t.agreement_id, activity_ids |-> t.activities, amount |-> t.cost,
     watch |-> t.id, sent |-> FALSE]

\* A faulty SendInvoice: the id is not the one issue_invoice returned.
SendInvoiceStale(t) ==
    Task("SendInvoice", "send", t.agreement_id, NoId, 0, {}, Len(invoices), FALSE)

\* myself.do_send(SendInvoice { invoice_id }) with the id of the invoice issued.
SendInvoice(t) ==
    Task("SendInvoice", "send", t.agreement_id, NoId, 0, {}, Len(invoices) + 1, FALSE)

\* Handler<IssueInvoice>, issue_invoice returns Ok; the AgreementClosed future
\* then does do_send(SendInvoice).
IssueInvoiceOk(t) ==
    /\ ~panicked
    /\ t \in TasksOf("AgreementClosed", "issue")
    /\ invoices' = Append(invoices, NewInvoice(t))
    /\ tasks' = Finish(t) (+) SetToBag({SendInvoice(t)})
    /\ UNCHANGED <<agreements, invoices_to_pay, earnings, panicked, nextWatch, count, finalNotes>>
    /\ UNCHANGED otherThanEngine

\* Handler<IssueInvoice>, issue_invoice returns Err: sleep invoice_reissue_interval, loop.
IssueInvoiceErr(t) ==
    /\ ~panicked
    /\ CanFail
    /\ t \in TasksOf("AgreementClosed", "issue")
    /\ count' = Used("failures")
    /\ UNCHANGED <<agreements, invoices_to_pay, earnings, panicked, tasks, invoices, nextWatch,
                   finalNotes>>
    /\ UNCHANGED otherThanEngine

\* Handler<SendInvoice>, send_invoice returns Ok.
SendInvoiceOk(t) ==
    /\ ~panicked
    /\ t \in TasksOf("SendInvoice", "send")
    /\ invoices' = [invoices EXCEPT ![t.id].sent = TRUE]
    /\ tasks' = Finish(t)
    /\ UNCHANGED <<agreements, invoices_to_pay, earnings, panicked, nextWatch, count, finalNotes>>
    /\ UNCHANGED otherThanEngine

\* Handler<SendInvoice>, send_invoice returns Err: sleep invoice_resend_interval, loop.
SendInvoiceErr(t) ==
    /\ ~panicked
    /\ CanFail
    /\ t \in TasksOf("SendInvoice", "send")
    /\ count' = Used("failures")
    /\ UNCHANGED <<agreements, invoices_to_pay, earnings, panicked, tasks, invoices, nextWatch,
                   finalNotes>>
    /\ UNCHANGED otherThanEngine

(***************************************************************************)
(* Settlement: InvoiceAccepted and InvoiceSettled, sent by the invoice     *)
(* event poller for invoices the requestor has received.                   *)
(***************************************************************************)
SentInvoices == {i \in 1..Len(invoices) : invoices[i].sent}

\* Handler<InvoiceAccepted>: get_invoice is awaited in the actor's context.
InvoiceAccepted(i) ==
    /\ ~panicked
    /\ count["accepted"] < MaxAccepts
    /\ i \in SentInvoices
    /\ tasks' = Spawn(Task("InvoiceAccepted", "get", invoices[i].agreement_id, NoId, 0, {}, i, FALSE))
    /\ count' = Used("accepted")
    /\ UNCHANGED <<agreements, invoices_to_pay, earnings, panicked, invoices, nextWatch,
                   finalNotes>>
    /\ UNCHANGED otherThanEngine

\* Handler<InvoiceAccepted>, get_invoice returned Ok.
InvoiceAcceptedOk(t) ==
    /\ ~panicked
    /\ t \in TasksOf("InvoiceAccepted", "get")
    /\ invoices_to_pay' = Append(invoices_to_pay, t.id)
    /\ tasks' = Finish(t)
    /\ UNCHANGED <<agreements, earnings, panicked, invoices, nextWatch, count, finalNotes>>
    /\ UNCHANGED otherThanEngine

\* Handler<InvoiceSettled>: get_invoice is awaited in the actor's context.
InvoiceSettled(i) ==
    /\ ~panicked
    /\ count["settled"] < MaxSettles
    /\ i \in SentInvoices
    /\ tasks' = Spawn(Task("InvoiceSettled", "get", invoices[i].agreement_id, NoId, 0, {}, i, FALSE))
    /\ count' = Used("settled")
    /\ UNCHANGED <<agreements, invoices_to_pay, earnings, panicked, invoices, nextWatch,
                   finalNotes>>
    /\ UNCHANGED otherThanEngine

\* Handler<InvoiceSettled> for an invoice whose settlement was processed before:
\* the payment interface replays the event.
InvoiceSettledReplayed(i) ==
    /\ ~panicked
    /\ i \in SentInvoices
    /\ CopiesIn(i, settled) \in 1..MaxReplays
    /\ \A t \in TasksOf("InvoiceSettled", "get") : t.id # i
    /\ tasks' = Spawn(Task("InvoiceSettled", "get", invoices[i].agreement_id, NoId, 0, {}, i, FALSE))
    /\ UNCHANGED <<agreements, invoices_to_pay, earnings, panicked, invoices, nextWatch, count,
                   finalNotes>>
    /\ UNCHANGED otherThanEngine

\* A faulty RemoveAgreement: the settled agreement stays in the map.
RemoveAgreementKeeps(a) == agreements

\* myself.agreements.remove(&invoice.agreement_id)
RemoveAgreement(a) == [agreements EXCEPT ![a] = NotTracked]

\* A faulty Earn: the settled amount is not added.
EarnNothing(amount) == earnings

\* myself.earnings += amount
Earn(amount) == earnings + amount

\* Handler<InvoiceSettled>, get_invoice returned Ok(invoice).
InvoiceSettledOk(t) ==
    /\ ~panicked
    /\ t \in TasksOf("InvoiceSettled", "get")
    /\ agreements' = RemoveAgreement(invoices[t.id].agreement_id)
    /\ invoices_to_pay' = SelectSeq(invoices_to_pay, LAMBDA j : j # t.id)
    /\ earnings' = Earn(invoices[t.id].amount)
    /\ tasks' = Finish(t)
    /\ settled' = settled (+) SetToBag({t.id})
    /\ UNCHANGED <<panicked, invoices, nextWatch, count, finalNotes>>
    /\ UNCHANGED otherThanPayments

\* Handler<InvoiceAccepted> or Handler<InvoiceSettled>, get_invoice returned Err.
GetInvoiceErr(t) ==
    /\ ~panicked
    /\ CanFail
    /\ t \in TasksOf("InvoiceAccepted", "get") \cup TasksOf("InvoiceSettled", "get")
    /\ tasks' = Finish(t)
    /\ count' = Used("failures")
    /\ UNCHANGED <<agreements, invoices_to_pay, earnings, panicked, invoices, nextWatch,
                   finalNotes>>
    /\ UNCHANGED otherThanEngine

AllTasks == BagToSet(tasks)

Next ==
    \/ \E a \in Agreements : AgreementApproved(a)
    \/ \E a \in Agreements, x \in ActivityIds : ActivityCreated(a, x)
    \/ \E a \in Agreements, x \in ActivityIds : ActivityCreatedNotRegistered(a, x)
    \/ \E a \in Agreements, x \in ActivityIds : ActivityDestroyed(a, x)
    \/ \E t \in AllTasks : UpdateCost(t)
    \/ \E t \in AllTasks, c \in Costs : ComputeCostOk(t, c)
    \/ \E t \in AllTasks : IssueDebitNoteOk(t)
    \/ \E t \in AllTasks : SendDebitNoteOk(t)
    \/ \E t \in AllTasks : TrackDeadlineOk(t)
    \/ \E t \in AllTasks : DebitNoteErr(t)
    \/ \E t \in AllTasks : FinalizeActivity(t)
    \/ \E a \in Agreements : AgreementClosed(a)
    \/ \E a \in Agreements : AgreementBroken(a)
    \/ \E t \in AllTasks : AgreementClosedSent(t)
    \/ \E t \in AllTasks : WaitForFinish(t)
    \/ \E t \in AllTasks : GetAgreementSummary(t)
    \/ \E t \in AllTasks : IssueInvoiceOk(t)
    \/ \E t \in AllTasks : IssueInvoiceErr(t)
    \/ \E t \in AllTasks : SendInvoiceOk(t)
    \/ \E t \in AllTasks : SendInvoiceErr(t)
    \/ \E i \in 1..Len(invoices) : InvoiceAccepted(i)
    \/ \E t \in AllTasks : InvoiceAcceptedOk(t)
    \/ \E i \in 1..Len(invoices) : InvoiceSettled(i)
    \/ \E t \in AllTasks : InvoiceSettledOk(t)
    \/ \E i \in 1..Len(invoices) : InvoiceSettledReplayed(i)
    \/ \E t \in AllTasks : GetInvoiceErr(t)

\* The debit note chains alone: no agreement is closed.
NextNotes ==
    \/ \E a \in Agreements : AgreementApproved(a)
    \/ \E a \in Agreements, x \in ActivityIds : ActivityCreated(a, x)
    \/ \E a \in Agreements, x \in ActivityIds : ActivityDestroyed(a, x)
    \/ \E t \in AllTasks : UpdateCost(t)
    \/ \E t \in AllTasks, c \in Costs : ComputeCostOk(t, c)
    \/ \E t \in AllTasks : IssueDebitNoteOk(t)
    \/ \E t \in AllTasks : SendDebitNoteOk(t)
    \/ \E t \in AllTasks : TrackDeadlineOk(t)
    \/ \E t \in AllTasks : DebitNoteErr(t)
    \/ \E t \in AllTasks : FinalizeActivity(t)

\* The ledger and the invoices: the UpdateCost ticks, which write nothing of the
\* actor's state, stay scheduled.
NextLedger ==
    \/ \E a \in Agreements : AgreementApproved(a)
    \/ \E a \in Agreements, x \in ActivityIds : ActivityCreated(a, x)
    \/ \E a \in Agreements, x \in ActivityIds : ActivityDestroyed(a, x)
    \/ \E t \in AllTasks, c \in Costs : ComputeCostOk(t, c)
    \/ \E t \in AllTasks : IssueDebitNoteOk(t)
    \/ \E t \in AllTasks : SendDebitNoteOk(t)
    \/ \E t \in AllTasks : TrackDeadlineOk(t)
    \/ \E t \in AllTasks : DebitNoteErr(t)
    \/ \E t \in AllTasks : FinalizeActivity(t)
    \/ \E a \in Agreements : AgreementClosed(a)
    \/ \E a \in Agreements : AgreementBroken(a)
    \/ \E t \in AllTasks : AgreementClosedSent(t)
    \/ \E t \in AllTasks : WaitForFinish(t)
    \/ \E t \in AllTasks : GetAgreementSummary(t)
    \/ \E t \in AllTasks : IssueInvoiceOk(t)
    \/ \E t \in AllTasks : IssueInvoiceErr(t)
    \/ \E t \in AllTasks : SendInvoiceOk(t)
    \/ \E t \in AllTasks : SendInvoiceErr(t)
    \/ \E i \in 1..Len(invoices) : InvoiceAccepted(i)
    \/ \E t \in AllTasks : InvoiceAcceptedOk(t)
    \/ \E i \in 1..Len(invoices) : InvoiceSettled(i)
    \/ \E t \in AllTasks : InvoiceSettledOk(t)
    \/ \E t \in AllTasks : GetInvoiceErr(t)

(***************************************************************************)
(* The event pollers: check_invoice_events and check_debit_notes_events.   *)
(* The payment service stamps each event with its clock when it records    *)
(* it, and get_*_events(after) returns, oldest first, events dated         *)
(* strictly after `after`: all of them, or the first ones when the         *)
(* long poll times out early.                                              *)
(***************************************************************************)
MaxPollEvents == 3  \* events the payment service records in a run
MaxDate == 2        \* last instant of the payment service's clock

InvoiceEventTypes == {"InvoiceAcceptedEvent", "InvoiceSettledEvent", "InvoiceReceivedEvent"}
DebitNoteEventTypes == {"DebitNoteAcceptedEvent", "DebitNoteReceivedEvent"}
Pollers == {"invoice", "debit_note"}
EventIds == 1..MaxPollEvents

PollInit ==
    /\ now = 0
    /\ events = [p \in Pollers |-> << >>]
    /\ after_timestamp = 0
    /\ lather_than = 0
    /\ pollPc = [p \in Pollers |-> "poll"]
    /\ batch = << >>
    /\ dispatched = [p \in Pollers |-> [e \in EventIds |-> 0]]
    /\ outbox = << >>

\* The payment service records an event.
RecordEvent(p, type) ==
    /\ Len(events["invoice"]) + Len(events["debit_note"]) < MaxPollEvents
    /\ type \in (IF p = "invoice" THEN InvoiceEventTypes ELSE DebitNoteEventTypes)
    /\ events' = [events EXCEPT ![p] = Append(@, [date |-> now, type |-> type])]
    /\ UNCHANGED <<now, after_timestamp, lather_than, pollPc, batch, dispatched, outbox>>
    /\ UNCHANGED otherThanPoll

ClockTick ==
    /\ now < MaxDate
    /\ now' = now + 1
    /\ UNCHANGED <<events, after_timestamp, lather_than, pollPc, batch, dispatched, outbox>>
    /\ UNCHANGED otherThanPoll

\* get_invoice_events / get_debit_note_events: the ids of the events dated strictly
\* after `after`, oldest first.
RECURSIVE EventsAfter(_, _, _)
EventsAfter(log, after, i) ==
    IF i > Len(log) THEN << >>
    ELSE IF log[i].date > after THEN <<i>> \o EventsAfter(log, after, i + 1)
    ELSE EventsAfter(log, after, i + 1)

Batches(p, after) ==
    LET all == EventsAfter(events[p], after, 1)
    IN {SubSeq(all, 1, n) : n \in 0..Len(all)}

\* A faulty WatermarkAfter: the watermark is not moved.
WatermarkStays(log, after, ids) == after

\* The for loop's `after_timestamp = event.event_date`, over a whole batch.
RECURSIVE WatermarkAfter(_, _, _)
WatermarkAfter(log, after, ids) ==
    IF ids = << >> THEN after
    ELSE WatermarkAfter(log, log[Head(ids)].date, Tail(ids))

\* The for loop's match on event.event_type, over a whole batch: the messages
\* do_send puts in the Payments actor's mailbox.
RECURSIVE InvoiceMessages(_, _)
InvoiceMessages(log, ids) ==
    IF ids = << >> THEN << >>
    ELSE LET e == Head(ids)
             m == IF log[e].type = "InvoiceAcceptedEvent"
                  THEN <<[msg |-> "InvoiceAccepted", id |-> e]>>
                  ELSE IF log[e].type = "InvoiceSettledEvent"
                  THEN <<[msg |-> "InvoiceSettled", id |-> e]>>
                  ELSE << >>
         IN m \o InvoiceMessages(log, Tail(ids))

Dispatched(p, ids) ==
    [dispatched EXCEPT ![p] = [e \in EventIds |->
        @[e] + Cardinality({k \in 1..Len(ids) : ids[k] = e})]]

\* check_invoice_events, one iteration of the loop with get_invoice_events Ok.
InvoiceEventsOk(ids) ==
    /\ pollPc["invoice"] = "poll"
    /\ ids \in Batches("invoice", after_timestamp)
    /\ outbox' = outbox \o InvoiceMessages(events["invoice"], ids)
    /\ dispatched' = Dispatched("invoice", ids)
    /\ after_timestamp' = WatermarkAfter(events["invoice"], after_timestamp, ids)
    /\ UNCHANGED <<now, events, lather_than, pollPc, batch>>
    /\ UNCHANGED otherThanPoll

\* A faulty WatermarkOnError: the poller starts over.
WatermarkReset(after) == 0

\* The watermark a poller goes on with after get_*_events returned Err.
WatermarkOnError(after) == after

\* check_invoice_events, get_invoice_events Err: delay_for(error_timeout).
InvoiceEventsErr ==
    /\ pollPc["invoice"] = "poll"
    /\ pollPc' = [pollPc EXCEPT !["invoice"] = "sleep"]
    /\ after_timestamp' = WatermarkOnError(after_timestamp)
    /\ UNCHANGED <<now, events, lather_than, batch, dispatched, outbox>>
    /\ UNCHANGED otherThanPoll

\* check_invoice_events: the delay is over, the empty vec![] is iterated, the loop
\* goes round.
InvoiceEventsRetry ==
    /\ pollPc["invoice"] = "sleep"
    /\ pollPc' = [pollPc EXCEPT !["invoice"] = "poll"]
    /\ UNCHANGED <<now, events, after_timestamp, lather_than, batch, dispatched, outbox>>
    /\ UNCHANGED otherThanPoll

\* check_debit_notes_events, get_debit_note_events Ok: the for loop starts.
DebitNoteEventsOk(ids) ==
    /\ pollPc["debit_note"] = "poll"
    /\ ids \in Batches("debit_note", lather_than)
    /\ batch' = ids
    /\ pollPc' = [pollPc EXCEPT !["debit_note"] = IF ids = << >> THEN "poll" ELSE "batch"]
    /\ UNCHANGED <<now, events, after_timestamp, lather_than, dispatched, outbox>>
    /\ UNCHANGED otherThanPoll

\* check_debit_notes_events, one turn of the for loop: StopTracking is sent and
\* awaited for an accepted note (its result is dropped), then the watermark moves.
DebitNoteEvent ==
    /\ pollPc["debit_note"] = "batch"
    /\ LET e == Head(batch)
       IN /\ outbox' = IF events["debit_note"][e].type = "DebitNoteAcceptedEvent"
                       THEN Append(outbox, [msg |-> "StopTracking", id |-> e])
                       ELSE outbox
          /\ dispatched' = Dispatched("debit_note", <<e>>)
          /\ lather_than' = WatermarkAfter(events["debit_note"], lather_than, <<e>>)
    /\ batch' = Tail(batch)
    /\ pollPc' = [pollPc EXCEPT !["debit_note"] = IF Tail(batch) = << >> THEN "poll" ELSE "batch"]
    /\ UNCHANGED <<now, events, after_timestamp>>
    /\ UNCHANGED otherThanPoll

\* check_debit_notes_events, get_debit_note_events Err: delay_for(error_timeout).
DebitNoteEventsErr ==
    /\ pollPc["debit_note"] = "poll"
    /\ pollPc' = [pollPc EXCEPT !["debit_note"] = "sleep"]
    /\ lather_than' = WatermarkOnError(lather_than)
    /\ UNCHANGED <<now, events, after_timestamp, batch, dispatched, outbox>>
    /\ UNCHANGED otherThanPoll

\* check_debit_notes_events: the delay is over, the loop goes round.
DebitNoteEventsRetry ==
    /\ pollPc["debit_note"] = "sleep"
    /\ pollPc' = [pollPc EXCEPT !["debit_note"] = "poll"]
    /\ UNCHANGED <<now, events, after_timestamp, lather_than, batch, dispatched, outbox>>
    /\ UNCHANGED otherThanPoll

NextPoll ==
    \/ \E p \in Pollers, type \in InvoiceEventTypes \cup DebitNoteEventTypes : RecordEvent(p, type)
    \/ ClockTick
    \/ \E ids \in Batches("invoice", after_timestamp) : InvoiceEventsOk(ids)
    \/ InvoiceEventsErr
    \/ InvoiceEventsRetry
    \/ \E ids \in Batches("debit_note", lather_than) : DebitNoteEventsOk(ids)
    \/ DebitNoteEvent
    \/ DebitNoteEventsErr
    \/ DebitNoteEventsRetry

(***************************************************************************)
(* The matcher (core/market/decentralized/src/matcher/matcher.rs): the     *)
(* local agent's subscribe_offer and unsubscribe_offer, and the handlers   *)
(* of the gossip messages OfferReceived and OfferUnsubscribed.  Each is an *)
(* async fn on the shared DbExecutor; calls run concurrently and           *)
(* interleave at their awaits.  OfferDao is not part of the sources at     *)
(* hand: the store follows the Offer/Demand Store of the specification.    *)
(***************************************************************************)
MaxCalls == 4        \* calls of the agent and inbound messages in a run
MaxDbFailures == 1   \* failed DAO and discovery calls in a run

OfferIds == {"O1", "O2"}
OfferStates == {"NotFound", "Active", "Unsubscribed", "Expired"}
Awaits == {"create_offer", "remove_offer", "broadcast_offer", "broadcast_unsubscribe"}

MatcherInit ==
    /\ offers = [o \in OfferIds |-> "NotFound"]
    /\ own = {}
    /\ inflight = [k \in Awaits \X OfferIds |-> 0]
    /\ msg = [op |-> "none", id |-> NoId, valid |-> TRUE]
    /\ reply = [op |-> "none", id |-> NoId, result |-> "none", reason |-> "none"]
    /\ propagated = [o \in OfferIds |-> 0]
    /\ gone = {}
    /\ gossipUnsubscribed = {}
    /\ broadcasts = [k \in {"offer", "unsubscribe"} \X OfferIds |-> 0]
    /\ calls = [k \in {"calls", "failures"} |-> 0]

Call(op, o, valid) == [op |-> op, id |-> o, valid |-> valid]
Returned(op, o, result, reason) == [op |-> op, id |-> o, result |-> result, reason |-> reason]
Suspend(at, o) == [inflight EXCEPT ![<<at, o>>] = @ + 1]
Resume(at, o) == [inflight EXCEPT ![<<at, o>>] = @ - 1]
CanCall == calls["calls"] < MaxCalls
Called == [calls EXCEPT !["calls"] = @ + 1]
DbCanFail == calls["failures"] < MaxDbFailures
DbFailed == [calls EXCEPT !["failures"] = @ + 1]

\* OfferDao::create_offer: inserts the record; the id is the table's key.
create_offer_ok(store, o) == store[o] = "NotFound"
create_offer(store, o) == [store EXCEPT ![o] = "Active"]

\* OfferDao::mark_offer_as_unsubscribed: Ok only for an Active offer, otherwise
\* AlreadyUnsubscribed, OfferExpired, or another error for an unknown id.
mark_offer_as_unsubscribed_ok(store, o) == store[o] = "Active"
mark_offer_as_unsubscribed(store, o) == [store EXCEPT ![o] = "Unsubscribed"]
UnsubscribeError(state) ==
    IF state = "Unsubscribed" THEN "AlreadyUnsubscribed"
    ELSE IF state = "Expired" THEN "OfferExpired"
    ELSE "OfferNotFound"

\* OfferDao::remove_offer: removes the full record.
remove_offer(store, o) == [store EXCEPT ![o] = "NotFound"]

\* The offer's expiration time passes.
OfferExpires(o) ==
    /\ offers[o] = "Active"
    /\ offers' = [offers EXCEPT ![o] = "Expired"]
    /\ gone' = gone \cup {o}
    /\ UNCHANGED <<own, inflight, msg, reply, propagated, gossipUnsubscribed, broadcasts, calls>>
    /\ UNCHANGED otherThanMatcher

DaoResults == {"Ok", "Err"}
\* The calls counted, and the failure when the DAO or discovery call fails.
Counted(dao) == IF dao = "Err" THEN [Called EXCEPT !["failures"] = @ + 1] ELSE Called
MayFail(dao) == dao = "Err" => DbCanFail

\* A faulty Propagation: only an Active record stops an offer (a lookup that
\* filters out unsubscribed and expired offers).
PropagationOfActiveOnly(state) ==
    IF state = "Active" THEN [result |-> "False", reason |-> "AlreadyExists"]
    ELSE [result |-> "True", reason |-> "none"]

\* A faulty Propagation: the tombstone of an unsubscribed offer is reported as
\* a known offer.
PropagationMixesReasons(state) ==
    IF state \in {"Active", "Unsubscribed"} THEN [result |-> "False", reason |-> "AlreadyExists"]
    ELSE IF state = "Expired" THEN [result |-> "False", reason |-> "Expired"]
    ELSE [result |-> "True", reason |-> "none"]

\* A faulty Propagation: an offer already stored is propagated again.
PropagationOfKnown(state) ==
    IF state = "Unsubscribed" THEN [result |-> "False", reason |-> "AlreadyUnsubscribed"]
    ELSE IF state = "Expired" THEN [result |-> "False", reason |-> "Expired"]
    ELSE [result |-> "True", reason |-> "none"]

\* on_offer_received: the match on get_offer_state(&msg.offer.id).
Propagation(state) ==
    IF state = "Active" THEN [result |-> "False", reason |-> "AlreadyExists"]
    ELSE IF state = "Unsubscribed" THEN [result |-> "False", reason |-> "AlreadyUnsubscribed"]
    ELSE IF state = "Expired" THEN [result |-> "False", reason |-> "Expired"]
    ELSE [result |-> "True", reason |-> "none"]

\* A faulty Validated: the offer's hash is not checked.
ValidatedAlways(valid) == TRUE

\* on_offer_received: msg.offer.validate()?, for an offer whose id is (valid) or is
\* not the hash of its content.
Validated(valid) == valid

\* A faulty Rejected: an error inside the handler is answered Propagate::True.
RejectedAsNew(o) == Returned("on_offer_received", o, "True", "none")

\* on_offer_received: the or_else closure, which turns every error of the async
\* block into Propagate::False(StopPropagateReason::Error(..)).
Rejected(o) == Returned("on_offer_received", o, "False", "Error")

\* on_offer_received up to its create_offer: the lookup, the match, validate.
on_offer_received(o, valid, dao) ==
    /\ CanCall
    /\ MayFail(dao)
    /\ calls' = Counted(dao)
    /\ msg' = Call("on_offer_received", o, valid)
    /\ LET p == Propagation(offers[o])
       IN IF dao = "Err"
          THEN /\ reply' = Rejected(o)
               /\ UNCHANGED inflight
          ELSE IF p.result = "False"
          THEN /\ reply' = Returned("on_offer_received", o, "False", p.reason)
               /\ UNCHANGED inflight
          ELSE IF ~Validated(valid)
          THEN /\ reply' = Rejected(o)
               /\ UNCHANGED inflight
          ELSE /\ inflight' = Suspend("create_offer", o)
               /\ UNCHANGED reply
    /\ UNCHANGED <<offers, own, propagated, gone, gossipUnsubscribed, broadcasts>>
    /\ UNCHANGED otherThanMatcher

\* on_offer_received: create_offer returns, and the handler returns `propagate`
\* or, through or_else, Propagate::False(Error).
OfferCreated(o, dao) ==
    /\ inflight[<<"create_offer", o>>] > 0
    /\ MayFail(dao)
    /\ inflight' = Resume("create_offer", o)
    /\ calls' = IF dao = "Err" THEN DbFailed ELSE calls
    /\ IF dao = "Ok" /\ create_offer_ok(offers, o)
       THEN /\ offers' = create_offer(offers, o)
            /\ reply' = Returned("on_offer_received", o, "True", "none")
            /\ propagated' = [propagated EXCEPT ![o] = @ + 1]
       ELSE /\ reply' = Rejected(o)
            /\ UNCHANGED <<offers, propagated>>
    /\ UNCHANGED <<own, msg, gone, gossipUnsubscribed, broadcasts>>
    /\ UNCHANGED otherThanMatcher

\* A faulty Swallowed: the error of the broadcast is returned to the caller.
Surfaced(sent) == sent

\* `let _ = ...broadcast...map_err(|error| log::warn!(..)); Ok(())`: the result
\* of the broadcast is logged and dropped, the call returns Ok.
Swallowed(sent) == "Ok"

\* Matcher::subscribe_offer up to broadcast_offer.
subscribe_offer(o, dao) ==
    /\ CanCall
    /\ MayFail(dao)
    /\ calls' = Counted(dao)
    /\ msg' = Call("subscribe_offer", o, TRUE)
    /\ IF dao = "Ok" /\ create_offer_ok(offers, o)
       THEN /\ offers' = create_offer(offers, o)
            /\ own' = own \cup {o}
            /\ inflight' = Suspend("broadcast_offer", o)
            /\ UNCHANGED reply
       ELSE /\ reply' = Returned("subscribe_offer", o, "Err", "SaveOfferFailure")
            /\ UNCHANGED <<offers, own, inflight>>
    /\ UNCHANGED <<propagated, gone, gossipUnsubscribed, broadcasts>>
    /\ UNCHANGED otherThanMatcher

\* Matcher::subscribe_offer: broadcast_offer returns; its error is logged.
OfferBroadcast(o, sent) ==
    /\ inflight[<<"broadcast_offer", o>>] > 0
    /\ MayFail(sent)
    /\ inflight' = Resume("broadcast_offer", o)
    /\ calls' = IF sent = "Err" THEN DbFailed ELSE calls
    /\ broadcasts' = IF sent = "Ok" THEN [broadcasts EXCEPT ![<<"offer", o>>] = @ + 1]
                     ELSE broadcasts
    /\ reply' = Returned("subscribe_offer", o, Swallowed(sent), "none")
    /\ UNCHANGED <<offers, own, msg, propagated, gone, gossipUnsubscribed>>
    /\ UNCHANGED otherThanMatcher

\* A faulty MarkedUnsubscribed: the DAO's verdict on the record is ignored, only
\* a database error stops the call.
MarkedWhateverState(dao, store, o) == dao = "Ok"

\* unsubscribe_offer: mark_offer_as_unsubscribed(..).await.map_err(..)? lets
\* the call go on only when the DAO marked the record.
MarkedUnsubscribed(dao, store, o) == dao = "Ok" /\ mark_offer_as_unsubscribed_ok(store, o)

\* Matcher::unsubscribe_offer up to broadcast_unsubscribe.
unsubscribe_offer(o, dao) ==
    /\ CanCall
    /\ MayFail(dao)
    /\ calls' = Counted(dao)
    /\ msg' = Call("unsubscribe_offer", o, TRUE)
    /\ IF MarkedUnsubscribed(dao, offers, o)
       THEN /\ offers' = mark_offer_as_unsubscribed(offers, o)
            /\ gone' = gone \cup {o}
            /\ inflight' = Suspend("broadcast_unsubscribe", o)
            /\ UNCHANGED reply
       ELSE /\ reply' = Returned("unsubscribe_offer", o, "Err",
                                 IF dao = "Err" THEN "DbError" ELSE UnsubscribeError(offers[o]))
            /\ UNCHANGED <<offers, gone, inflight>>
    /\ UNCHANGED <<own, propagated, gossipUnsubscribed, broadcasts>>
    /\ UNCHANGED otherThanMatcher

\* Matcher::unsubscribe_offer: broadcast_unsubscribe returns; its error is logged.
UnsubscribeBroadcast(o, sent) ==
    /\ inflight[<<"broadcast_unsubscribe", o>>] > 0
    /\ MayFail(sent)
    /\ inflight' = Resume("broadcast_unsubscribe", o)
    /\ calls' = IF sent = "Err" THEN DbFailed ELSE calls
    /\ broadcasts' = IF sent = "Ok" THEN [broadcasts EXCEPT ![<<"unsubscribe", o>>] = @ + 1]
                     ELSE broadcasts
    /\ reply' = Returned("unsubscribe_offer", o, Swallowed(sent), "none")
    /\ UNCHANGED <<offers, own, msg, propagated, gone, gossipUnsubscribed>>
    /\ UNCHANGED otherThanMatcher

\* on_offer_unsubscribed: the or_else mapping of UnsubscribeError.
StopReason(error) ==
    IF error = "OfferExpired" THEN "Expired"
    ELSE IF error = "AlreadyUnsubscribed" THEN "AlreadyUnsubscribed"
    ELSE "Error"

\* on_offer_unsubscribed up to remove_offer.
on_offer_unsubscribed(o, dao) ==
    /\ CanCall
    /\ MayFail(dao)
    /\ calls' = Counted(dao)
    /\ msg' = Call("on_offer_unsubscribed", o, TRUE)
    /\ IF dao = "Ok" /\ mark_offer_as_unsubscribed_ok(offers, o)
       THEN /\ offers' = mark_offer_as_unsubscribed(offers, o)
            /\ gone' = gone \cup {o}
            /\ inflight' = Suspend("remove_offer", o)
            /\ UNCHANGED reply
       ELSE /\ reply' = Returned("on_offer_unsubscribed", o, "False",
                                 IF dao = "Err" THEN "Error"
                                 ELSE StopReason(UnsubscribeError(offers[o])))
            /\ UNCHANGED <<offers, gone, inflight>>
    /\ UNCHANGED <<own, propagated, gossipUnsubscribed, broadcasts>>
    /\ UNCHANGED otherThanMatcher

\* on_offer_unsubscribed: remove_offer returns; its error is logged, and the
\* handler returns Propagate::True.
OfferRemoved(o, dao) ==
    /\ inflight[<<"remove_offer", o>>] > 0
    /\ MayFail(dao)
    /\ inflight' = Resume("remove_offer", o)
    /\ calls' = IF dao = "Err" THEN DbFailed ELSE calls
    /\ offers' = IF dao = "Ok" THEN remove_offer(offers, o) ELSE offers
    /\ gossipUnsubscribed' = gossipUnsubscribed \cup {o}
    /\ reply' = Returned("on_offer_unsubscribed", o, "True", "none")
    /\ UNCHANGED <<own, msg, propagated, gone, broadcasts>>
    /\ UNCHANGED otherThanMatcher

NextMatcher ==
    \/ \E o \in OfferIds : OfferExpires(o)
    \/ \E o \in OfferIds, valid \in BOOLEAN, dao \in DaoResults : on_offer_received(o, valid, dao)
    \/ \E o \in OfferIds, dao \in DaoResults : OfferCreated(o, dao)
    \/ \E o \in OfferIds, dao \in DaoResults : subscribe_offer(o, dao)
    \/ \E o \in OfferIds, sent \in DaoResults : OfferBroadcast(o, sent)
    \/ \E o \in OfferIds, dao \in DaoResults : unsubscribe_offer(o, dao)
    \/ \E o \in OfferIds, sent \in DaoResults : UnsubscribeBroadcast(o, sent)
    \/ \E o \in OfferIds, dao \in DaoResults : on_offer_unsubscribed(o, dao)
    \/ \E o \in OfferIds, dao \in DaoResults : OfferRemoved(o, dao)

(***************************************************************************)
(* Payment deadlines of debit notes: send_debit_note registers the         *)
(* deadline of a note it has sent with the DeadlineChecker (TrackDeadline),*)
(* check_debit_notes_events cancels it when the requestor accepted the     *)
(* note (StopTracking), and the DeadlineChecker delivers DeadlineElapsed   *)
(* to the Payments actor.  The DeadlineChecker (payment_checker.rs) is not *)
(* part of the sources at hand: it follows the Deadline Tracker of the     *)
(* specification.                                                          *)
(***************************************************************************)
MaxClock == 3        \* last instant of the Deadline Tracker's clock

NoteIds == {"N1", "N2"}
Deadlines == 1..MaxClock
NoEntry == 0

DeadlineInit ==
    /\ clock = 0
    /\ entries = [n \in NoteIds |-> NoEntry]
    /\ note = [n \in NoteIds |-> [pc |-> "unsent", deadline |-> NoEntry, accepted |-> "no"]]
    /\ elapsed = [n \in NoteIds |-> 0]
    /\ lifetimes = [n \in NoteIds |-> [created |-> 0, stopped |-> 0]]
    /\ acceptedInTime = {}

\* DeadlineChecker, Track: insert or replace the entry keyed by the item id.
Track(ents, n, deadline) == [ents EXCEPT ![n] = deadline]

\* DeadlineChecker, StopTracking: remove the entry; no-op if absent.
Stop(ents, n) == [ents EXCEPT ![n] = NoEntry]

\* A faulty Fire: the entry outlives its firing.
FireAndKeep(ents, n) == ents

\* DeadlineChecker, firing: the entry is removed as DeadlineElapsed is delivered.
Fire(ents, n) == [ents EXCEPT ![n] = NoEntry]

Due(n) == entries[n] # NoEntry /\ clock >= entries[n]

Tick ==
    /\ clock < MaxClock
    /\ clock' = clock + 1
    /\ UNCHANGED <<entries, note, elapsed, lifetimes, acceptedInTime>>
    /\ UNCHANGED otherThanDeadline

\* send_debit_note: payment_api.send_debit_note returned Ok for a note that
\* carries the payment deadline.
NoteDelivered(n, deadline) ==
    /\ note[n].pc = "unsent"
    /\ deadline > clock
    /\ note' = [note EXCEPT ![n].pc = "sent", ![n].deadline = deadline]
    /\ UNCHANGED <<clock, entries, elapsed, lifetimes, acceptedInTime>>
    /\ UNCHANGED otherThanDeadline

\* send_debit_note: debit_checker.send(TrackDeadline{..}) is handled by the
\* DeadlineChecker, and send_debit_note returns Ok(debit_note).
TrackDeadline(n) ==
    /\ note[n].pc = "sent"
    /\ note' = [note EXCEPT ![n].pc = "tracked"]
    /\ entries' = Track(entries, n, note[n].deadline)
    /\ lifetimes' = [lifetimes EXCEPT ![n].created = @ + 1]
    /\ UNCHANGED <<clock, elapsed, acceptedInTime>>
    /\ UNCHANGED otherThanDeadline

\* send_debit_note: debit_checker.send(TrackDeadline{..}) returns a mailbox
\* error, which `?` returns from send_debit_note.
TrackDeadlineErr(n) ==
    /\ note[n].pc = "sent"
    /\ note' = [note EXCEPT ![n].pc = "untracked"]
    /\ UNCHANGED <<clock, entries, elapsed, lifetimes, acceptedInTime>>
    /\ UNCHANGED otherThanDeadline

\* The requestor accepts a debit note it has received: the payment service
\* records a DebitNoteAcceptedEvent.
DebitNoteAccepted(n) ==
    /\ note[n].pc # "unsent"
    /\ note[n].accepted = "no"
    /\ note' = [note EXCEPT ![n].accepted = "event"]
    /\ UNCHANGED <<clock, entries, elapsed, lifetimes, acceptedInTime>>
    /\ UNCHANGED otherThanDeadline

\* check_debit_notes_events: the loop's turn for the DebitNoteAcceptedEvent of
\* the note: StopTracking is sent to the DeadlineChecker, which handles it.
StopTracking(n) ==
    /\ note[n].accepted = "event"
    /\ note' = [note EXCEPT ![n].accepted = "processed"]
    /\ entries' = Stop(entries, n)
    /\ lifetimes' = IF entries[n] # NoEntry
                    THEN [lifetimes EXCEPT ![n].stopped = @ + 1]
                    ELSE lifetimes
    /\ acceptedInTime' = IF clock < note[n].deadline
                         THEN acceptedInTime \cup {n}
                         ELSE acceptedInTime
    /\ UNCHANGED <<clock, elapsed>>
    /\ UNCHANGED otherThanDeadline

\* The DeadlineChecker fires an entry whose deadline has come, and
\* Handler<DeadlineElapsed> of the Payments actor logs it.
DeadlineElapsed(n) ==
    /\ Due(n)
    /\ entries' = Fire(entries, n)
    /\ elapsed' = [elapsed EXCEPT ![n] = @ + 1]
    /\ UNCHANGED <<clock, note, lifetimes, acceptedInTime>>
    /\ UNCHANGED otherThanDeadline

NextDeadline ==
    \/ Tick
    \/ \E n \in NoteIds, deadline \in Deadlines : NoteDelivered(n, deadline)
    \/ \E n \in NoteIds : TrackDeadline(n)
    \/ \E n \in NoteIds : TrackDeadlineErr(n)
    \/ \E n \in NoteIds : DebitNoteAccepted(n)
    \/ \E n \in NoteIds : StopTracking(n)
    \/ \E n \in NoteIds : DeadlineElapsed(n)

(***************************************************************************)
(* Volume paths of the container (transfer.rs): strings are sequences of   *)
(* characters, a PathBuf is the string it displays as.                     *)
(***************************************************************************)
MaxPath == 7         \* longest container path, in characters

\* The separator and a character of a name.
Chars == {"/", "a"}

RECURSIVE Str(_)
Str(n) ==
    IF n = 0 THEN {<< >>}
    ELSE Str(n - 1) \cup {Append(s, c) : s \in {r \in Str(n - 1) : Len(r) = n - 1}, c \in Chars}

ContainerPaths == Str(MaxPath)

\* A volume's mount point: empty, or absolute with no empty component.
MountPoint(s) ==
    \/ s = << >>
    \/ /\ s[1] = "/"
       /\ s[Len(s)] # "/"
       /\ \A k \in 1..(Len(s) - 1) : ~(s[k] = "/" /\ s[k + 1] = "/")

VolumePaths == {s \in Str(MaxPath - 2) : MountPoint(s)}

VolumeNames == << <<"1">>, <<"2">> >>

ContainerVolume(name, path) == [name |-> name, path |-> path]

\* The volume lists AddVolumes carries: distinct mount points, named in order.
VolumeLists ==
    {<< >>}
    \cup {<<ContainerVolume(VolumeNames[1], q)>> : q \in VolumePaths}
    \cup {<<ContainerVolume(VolumeNames[1], qr[1]), ContainerVolume(VolumeNames[2], qr[2])>> :
              qr \in {v \in VolumePaths \X VolumePaths : v[1] # v[2]}}

work_dir == <<"/", "w">>

NotResolved == [ok |-> FALSE, error |-> "none"]

TransferInit ==
    /\ container = FALSE
    /\ vols = << >>
    /\ container_path = << >>
    /\ resolved = NotResolved

\* str::starts_with
starts_with(s, prefix) ==
    /\ Len(prefix) <= Len(s)
    /\ SubSeq(s, 1, Len(prefix)) = prefix

\* &s[start..]
SliceFrom(s, start) == SubSeq(s, start + 1, Len(s))

\* A faulty is_prefix_of: any prefix counts, whole component or not.
is_prefix_of_any(base, path) ==
    IF starts_with(path, base) THEN Len(base) + 1 ELSE 0

\* fn is_prefix_of
is_prefix_of(base, path) ==
    IF /\ starts_with(path, base)
       /\ (path = base \/ starts_with(SliceFrom(path, Len(base)), <<"/">>))
    THEN Len(base) + 1
    ELSE 0

\* Iterator::max_by_key over the volumes: the last of the elements with the
\* largest key; 0 stands for None (no volume).
max_by_key(vs, path) ==
    IF vs = << >> THEN 0
    ELSE CHOOSE i \in 1..Len(vs) :
             \A j \in 1..Len(vs) :
                 /\ is_prefix_of(vs[j].path, path) <= is_prefix_of(vs[i].path, path)
                 /\ j > i => is_prefix_of(vs[j].path, path) < is_prefix_of(vs[i].path, path)

\* PathBuf::join: an absolute path replaces the base, a relative one is
\* appended after a separator.
join(base, path) ==
    IF starts_with(path, <<"/">>) THEN path
    ELSE IF base # << >> /\ base[Len(base)] = "/" THEN base \o path
    ELSE base \o <<"/">> \o path

Ok(path) == [ok |-> TRUE, path |-> path]
Err(error) == [ok |-> FALSE, error |-> error]

\* ContainerTransferProvider::resolve_path, the value it returns.
ResolvePath(vs, path) ==
    LET i == max_by_key(vs, path) IN
    IF i # 0 /\ is_prefix_of(vs[i].path, path) > 0
    THEN LET c == vs[i]
             vol_base == join(work_dir, c.name)
         IN  IF c.path = path THEN Ok(vol_base)
             ELSE LET rest == SliceFrom(path, Len(c.path) + 1) IN
                  IF starts_with(rest, <<"/">>)
                  THEN Err("invalid path format")
                  ELSE Ok(join(vol_base, rest))
    ELSE Err("not found in container")

\* Handler<AddVolumes>, sent once the image is deployed.
AddVolumes(vs) ==
    /\ ~container
    /\ container' = TRUE
    /\ vols' = vs
    /\ UNCHANGED <<container_path, resolved>>
    /\ UNCHANGED otherThanTransfer

\* ContainerTransferProvider::resolve_path, called by source and destination:
\* the first call after the volumes were added.
resolve_path(path) ==
    /\ container
    /\ resolved = NotResolved
    /\ container_path' = path
    /\ resolved' = ResolvePath(vols, path)
    /\ UNCHANGED <<container, vols>>
    /\ UNCHANGED otherThanTransfer

NextTransfer ==
    \/ \E vs \in VolumeLists : AddVolumes(vs)
    \/ \E path \in ContainerPaths : resolve_path(path)

(***************************************************************************)
(* TransferService: transfers and their abort handles (transfer.rs).       *)
(* Each transfer has one abort handle, made by AbortHandle::new_pair in    *)
(* the handler; the transfer and its handle share an id.                   *)
(***************************************************************************)
MaxTransfers == 3    \* TransferResource and DeployImage messages in a run

TransferIds == 1..MaxTransfers

\* TransferService::new: abort_handles is empty; no transfer was asked for.
AbortInit ==
    /\ abort_handles = {}
    /\ transfers = [h \in TransferIds |-> "none"]
    /\ aborted = {}

\* Handler<TransferResource>, and Handler<DeployImage> when the image is not
\* cached: the future is created and sends AddAbortHandle to the actor.
TransferResource(h) ==
    /\ transfers[h] = "none"
    /\ transfers' = [transfers EXCEPT ![h] = "add"]
    /\ UNCHANGED <<abort_handles, aborted>>
    /\ UNCHANGED otherThanAbort

\* Handler<DeployImage>, cache_path exists: the image is copied, no transfer
\* is made and no handle is registered.
DeployImageCached(h) ==
    /\ transfers[h] = "none"
    /\ transfers' = [transfers EXCEPT ![h] = "cached"]
    /\ UNCHANGED <<abort_handles, aborted>>
    /\ UNCHANGED otherThanAbort

\* Handler<AddAbortHandle>; the future then starts Abortable::new(transfer(..)).
AddAbortHandle(h) ==
    /\ transfers[h] = "add"
    /\ abort_handles' = abort_handles \cup {h}
    /\ transfers' = [transfers EXCEPT ![h] = "transfer"]
    /\ UNCHANGED aborted
    /\ UNCHANGED otherThanAbort

\* `Abortable::new(transfer(..), reg).await.map_err(TransferError::from)??`
\* with an Err: the future returns the error at once.
AfterTransferErr(h) == "failed"

\* The transfer ends with Ok: the future sends RemoveAbortHandle.
TransferOk(h) ==
    /\ transfers[h] = "transfer"
    /\ h \notin aborted
    /\ transfers' = [transfers EXCEPT ![h] = "remove"]
    /\ UNCHANGED <<abort_handles, aborted>>
    /\ UNCHANGED otherThanAbort

\* The transfer ends with an error.
TransferErr(h) ==
    /\ transfers[h] = "transfer"
    /\ h \notin aborted
    /\ transfers' = [transfers EXCEPT ![h] = AfterTransferErr(h)]
    /\ UNCHANGED <<abort_handles, aborted>>
    /\ UNCHANGED otherThanAbort

\* The Abortable of an aborted handle ends with Err(Aborted).
TransferAborted(h) ==
    /\ transfers[h] = "transfer"
    /\ h \in aborted
    /\ transfers' = [transfers EXCEPT ![h] = "aborted"]
    /\ UNCHANGED <<abort_handles, aborted>>
    /\ UNCHANGED otherThanAbort

\* Handler<RemoveAbortHandle>; the future then returns Ok.
RemoveAbortHandle(h) ==
    /\ transfers[h] = "remove"
    /\ abort_handles' = abort_handles \ {h}
    /\ transfers' = [transfers EXCEPT ![h] = "done"]
    /\ UNCHANGED aborted
    /\ UNCHANGED otherThanAbort

\* Handler<AbortTransfers>: the set is replaced by an empty one and every
\* handle taken out of it is aborted.
AbortTransfers ==
    /\ abort_handles' = {}
    /\ aborted' = aborted \cup abort_handles
    /\ UNCHANGED transfers
    /\ UNCHANGED otherThanAbort

NextAbort ==
    \/ \E h \in TransferIds : TransferResource(h)
    \/ \E h \in TransferIds : DeployImageCached(h)
    \/ \E h \in TransferIds : AddAbortHandle(h)
    \/ \E h \in TransferIds : TransferOk(h)
    \/ \E h \in TransferIds : TransferErr(h)
    \/ \E h \in TransferIds : TransferAborted(h)
    \/ \E h \in TransferIds : RemoveAbortHandle(h)
    \/ AbortTransfers

(***************************************************************************)
(* A network of nodes, each running the matcher's on_offer_received for    *)
(* one offer; discovery forwards the offer to the node's peers when the    *)
(* handler returns Propagate::True.  The offer is not unsubscribed.        *)
(***************************************************************************)
MaxNodes == 3        \* nodes of the network
MaxFaults == 1       \* failed DAO and discovery calls in a run

Nodes == 1..MaxNodes
NoNode == 0
Peers(n) == Nodes \ {n}

\* No more messages than every node forwarding the offer once puts on the wire.
MaxInFlight == MaxNodes * (MaxNodes - 1)

RECURSIVE OnWire(_)
OnWire(ns) ==
    IF ns = {} THEN 0
    ELSE LET n == CHOOSE m \in ns : TRUE IN wire[n] + OnWire(ns \ {n})

\* Matcher::new on every node: empty stores, nothing on the wire.
GossipInit ==
    /\ stores = [n \in Nodes |-> "NotFound"]
    /\ wire = [n \in Nodes |-> 0]
    /\ saving = [n \in Nodes |-> 0]
    /\ forwarded = [n \in Nodes |-> 0]
    /\ origin = NoNode
    /\ faults = 0

Faulty(dao) == IF dao = "Err" THEN faults + 1 ELSE faults
CanFault(dao) == dao = "Err" => faults < MaxFaults

\* Discovery delivers the offer of node n to each of its peers.
Sent(n) == [m \in Nodes |-> IF m \in Peers(n) THEN wire[m] + 1 ELSE wire[m]]
CanSend(n) == OnWire(Nodes) + Cardinality(Peers(n)) <= MaxInFlight

\* Matcher::subscribe_offer on node n, the one subscription of the offer:
\* create_offer, then broadcast_offer, whose failure is logged.
Subscribe(n, sent) ==
    /\ origin = NoNode
    /\ CanFault(sent)
    /\ origin' = n
    /\ stores' = create_offer(stores, n)
    /\ wire' = IF sent = "Ok" THEN Sent(n) ELSE wire
    /\ faults' = Faulty(sent)
    /\ UNCHANGED <<saving, forwarded>>
    /\ UNCHANGED otherThanGossip

\* on_offer_received on node n up to its create_offer: the lookup, the match,
\* validate (what discovery forwards is the offer as subscribed).
Receive(n, dao) ==
    /\ wire[n] > 0
    /\ CanFault(dao)
    /\ wire' = [wire EXCEPT ![n] = @ - 1]
    /\ faults' = Faulty(dao)
    /\ saving' = IF dao = "Ok" /\ Propagation(stores[n]).result = "True" /\ Validated(TRUE)
                 THEN [saving EXCEPT ![n] = @ + 1]
                 ELSE saving
    /\ UNCHANGED <<stores, forwarded, origin>>
    /\ UNCHANGED otherThanGossip

\* A faulty Outcome: the result of create_offer is dropped.
OutcomeIgnoresSave(saved) == "True"

\* on_offer_received: `create_offer(..).await.map_err(SaveOfferFailure)?`, then
\* Ok(propagate), which is Propagate::True on this path; or_else answers
\* Propagate::False(Error) for the error.
Outcome(saved) == IF saved THEN "True" ELSE "False"

\* on_offer_received on node n: create_offer returns and the handler answers;
\* on Propagate::True discovery forwards the offer to the peers of n.
Saved(n, dao) ==
    /\ saving[n] > 0
    /\ CanFault(dao)
    /\ saving' = [saving EXCEPT ![n] = @ - 1]
    /\ faults' = Faulty(dao)
    /\ LET saved == dao = "Ok" /\ create_offer_ok(stores, n)
       IN /\ stores' = IF saved THEN create_offer(stores, n) ELSE stores
          /\ IF Outcome(saved) = "True"
             THEN /\ CanSend(n)
                  /\ forwarded' = [forwarded EXCEPT ![n] = @ + 1]
                  /\ wire' = Sent(n)
             ELSE UNCHANGED <<forwarded, wire>>
    /\ UNCHANGED origin
    /\ UNCHANGED otherThanGossip

\* The offer's expiration time passes on node n.
Expire(n) ==
    /\ stores[n] = "Active"
    /\ stores' = [stores EXCEPT ![n] = "Expired"]
    /\ UNCHANGED <<wire, saving, forwarded, origin, faults>>
    /\ UNCHANGED otherThanGossip

NextGossip ==
    \/ \E n \in Nodes, sent \in DaoResults : Subscribe(n, sent)
    \/ \E n \in Nodes, dao \in DaoResults : Receive(n, dao)
    \/ \E n \in Nodes, dao \in DaoResults : Saved(n, dao)
    \/ \E n \in Nodes : Expire(n)

SettledInit == settled = EmptyBag

Init ==
    /\ EngineInit /\ PollInit /\ MatcherInit /\ DeadlineInit /\ TransferInit /\ SettledInit
    /\ AbortInit /\ GossipInit

vars ==
    <<engineVars, pollVars, matcherVars, deadlineVars, transferVars, settledVars, abortVars,
      gossipVars>>

Spec == Init /\ [][Next]_vars

SpecNotes == Init /\ [][NextNotes]_vars

SpecLedger == Init /\ [][NextLedger]_vars

SpecPoll == Init /\ [][NextPoll]_vars

\* The ledger and the invoices when agreements end only by being broken.
NextBroken ==
    \/ \E a \in Agreements : AgreementApproved(a)
    \/ \E a \in Agreements, x \in ActivityIds : ActivityCreated(a, x)
    \/ \E a \in Agreements, x \in ActivityIds : ActivityDestroyed(a, x)
    \/ \E t \in AllTasks, c \in Costs : ComputeCostOk(t, c)
    \/ \E t \in AllTasks : IssueDebitNoteOk(t)
    \/ \E t \in AllTasks : SendDebitNoteOk(t)
    \/ \E t \in AllTasks : TrackDeadlineOk(t)
    \/ \E t \in AllTasks : DebitNoteErr(t)
    \/ \E t \in AllTasks : FinalizeActivity(t)
    \/ \E a \in Agreements : AgreementBroken(a)
    \/ \E t \in AllTasks : AgreementClosedSent(t)
    \/ \E t \in AllTasks : WaitForFinish(t)
    \/ \E t \in AllTasks : GetAgreementSummary(t)
    \/ \E t \in AllTasks : IssueInvoiceOk(t)
    \/ \E t \in AllTasks : IssueInvoiceErr(t)
    \/ \E t \in AllTasks : SendInvoiceOk(t)
    \/ \E t \in AllTasks : SendInvoiceErr(t)
    \/ \E i \in 1..Len(invoices) : InvoiceAccepted(i)
    \/ \E t \in AllTasks : InvoiceAcceptedOk(t)
    \/ \E i \in 1..Len(invoices) : InvoiceSettled(i)
    \/ \E t \in AllTasks : InvoiceSettledOk(t)
    \/ \E t \in AllTasks : GetInvoiceErr(t)

\* The payment interface accepts in the end: issue_invoice and send_invoice
\* of a loop in flight eventually return Ok, and the actor's futures are polled.
InvoiceProgress(a) ==
    \E t \in BagToSet(tasks) :
        /\ t.agreement_id = a
        /\ IssueInvoiceOk(t) \/ SendInvoiceOk(t)

SpecLedgerFair == SpecLedger /\ \A a \in Agreements : WF_vars(InvoiceProgress(a))

SpecBroken == Init /\ [][NextBroken]_vars

\* The debit note chains, ActivityCreated for unknown agreements included.
NextCreated ==
    \/ \E a \in Agreements, x \in ActivityIds : ActivityCreatedNotRegistered(a, x)
    \/ NextNotes

SpecCreated == Init /\ [][NextCreated]_vars

SpecTransfer == Init /\ [][NextTransfer]_vars

SpecAbort == Init /\ [][NextAbort]_vars

SpecGossip == Init /\ [][NextGossip]_vars

\* Every message on the wire is delivered and every create_offer returns.
Handling(n) == \E dao \in DaoResults : Receive(n, dao) \/ Saved(n, dao)

SpecGossipFair == SpecGossip /\ \A n \in Nodes : WF_vars(Handling(n))

\* The ledger and the invoices, with settlements replayed.
NextSettle ==
    \/ NextLedger
    \/ \E i \in 1..Len(invoices) : InvoiceSettledReplayed(i)

SpecSettle == Init /\ [][NextSettle]_vars

SpecMatcher == Init /\ [][NextMatcher]_vars

SpecDeadline == Init /\ [][NextDeadline]_vars

\* A step of the final debit note's loop for activity k in which the call made
\* succeeds, or the FinalizeActivity it sends is handled.
FinalProgress(k) ==
    \E t \in BagToSet(tasks) :
        /\ t.kind = "Final"
        /\ <<t.agreement_id, t.activity_id>> = k
        /\ \/ \E c \in Costs : ComputeCostOk(t, c)
           \/ IssueDebitNoteOk(t)
           \/ SendDebitNoteOk(t)
           \/ TrackDeadlineOk(t)
           \/ FinalizeActivity(t)

\* The debit notes' machine when the activity and payment interfaces eventually
\* succeed and the actor's mailbox is served.
SpecNotesFair ==
    SpecNotes /\ \A k \in Agreements \X ActivityIds : WF_vars(FinalProgress(k))

(***************************************************************************)
(* Properties.                                                             *)
(***************************************************************************)
Keys == Agreements \X ActivityIds
IssuedInvoices == 1..Len(invoices)

\* The step is the Ok branch of Handler<InvoiceSettled> for an invoice of agreement a.
SettledOkStep(a) ==
    \E t \in TasksOf("InvoiceSettled", "get") :
        /\ invoices[t.id].agreement_id = a
        /\ tasks' = Finish(t)
        /\ count' = count
        /\ ~panicked'

\* C1: an agreement leaves the agreements map exactly in the steps that process an
\* InvoiceSettled of one of its invoices: no other step removes a tracked agreement,
\* and after every processed settlement the invoice's agreement is not tracked.
C1_RemovedIffSettled ==
    [][\A a \in Agreements :
          /\ (agreements[a].tracked /\ ~agreements'[a].tracked) => SettledOkStep(a)
          /\ SettledOkStep(a) => ~agreements'[a].tracked]_vars

\* A settlement was processed: its agreement is gone, its amount is earned, and
\* another agreement is still tracked.
C1_Witness ==
    /\ count["settled"] = 1
    /\ count["failures"] = 0
    /\ TasksOf("InvoiceSettled", "get") = {}
    /\ earnings > 0
    /\ \E a, b \in Agreements : ~Tracked(a) /\ Tracked(b)

\* C2: however many AgreementClosed / AgreementBroken events arrive for an
\* agreement, at most one invoice is issued for it (for one record of the ledger).
C2_OneInvoicePerAgreement ==
    \A i, j \in IssuedInvoices :
        (/\ invoices[i].agreement_id = invoices[j].agreement_id
         /\ invoices[i].watch = invoices[j].watch) => i = j

\* C3: whenever issue_invoice accepts an invoice for an agreement, none of the
\* agreement's activities is Running or Destroyed.
C3_InvoiceAfterFinalized ==
    [][Len(invoices') > Len(invoices) =>
          \A x \in ActivityIds :
              agreements[invoices'[Len(invoices')].agreement_id].activities[x]
                  \notin {"Running", "Destroyed"}]_vars

\* The invoice and the ledger record it was summarised from.
SameRecord(inv) ==
    /\ Tracked(inv.agreement_id)
    /\ agreements[inv.agreement_id].watch = inv.watch

\* C4: GetAgreementSummary returns exactly the Finalized activities of the agreement
\* and the sum of the costs FinalizeActivity recorded for them, the invoice issued
\* carries that summary unchanged, and so every issued invoice's amount is the sum of
\* the recorded costs of its activity_ids, all of them Finalized.
C4_InvoiceIsSummary ==
    [][/\ \A u \in BagToSet(tasks') :
              (/\ u.kind = "AgreementClosed" /\ u.pc = "issue"
               /\ CopiesIn(u, tasks') > CopiesIn(u, tasks))
              => /\ u.activities = {x \in ActivityIds :
                        agreements[u.agreement_id].activities[x] = "Finalized"}
                 /\ u.cost = SumCost(agreements[u.agreement_id].cost, u.activities)
       /\ Len(invoices') > Len(invoices) =>
              \E t \in TasksOf("AgreementClosed", "issue") :
                  /\ invoices'[Len(invoices')].agreement_id = t.agreement_id
                  /\ invoices'[Len(invoices')].amount = t.cost
                  /\ invoices'[Len(invoices')].activity_ids = t.activities
       /\ \A i \in 1..Len(invoices') :
              LET inv == invoices'[i]
                  rec == agreements'[inv.agreement_id]
              IN (rec.tracked /\ rec.watch = inv.watch)
                 => /\ \A x \in inv.activity_ids : rec.activities[x] = "Finalized"
                    /\ inv.amount = SumCost(rec.cost, inv.activity_ids)]_vars

\* An invoice for two activities with different costs.
C4_Witness ==
    \E i \in IssuedInvoices :
        /\ invoices[i].activity_ids = ActivityIds
        /\ invoices[i].amount = 3
        /\ SameRecord(invoices[i])

\* C5: for every activity at most one final debit note is ever sent.
C5_OneFinalNote == \A k \in Keys : finalNotes[k].sent <= 1

\* The step issues or sends a periodic debit note of activity k.
PeriodicNoteStep(k) ==
    /\ count' = count
    /\ ~panicked'
    /\ \/ \E t \in TasksOf("UpdateCost", "issue") :
              /\ <<t.agreement_id, t.activity_id>> = k
              /\ tasks' = Step(t, [t EXCEPT !.pc = "send"])
       \/ \E t \in TasksOf("UpdateCost", "send") :
              /\ <<t.agreement_id, t.activity_id>> = k
              /\ tasks' = Step(t, AfterSend(t))

\* C6: no periodic debit note of an activity is issued or sent after the activity's
\* final debit note has been sent.
C6_FinalNoteIsLast ==
    [][\A k \in Keys : PeriodicNoteStep(k) => finalNotes[k].sent = 0]_vars

\* The next tick of the chain of t.
LaterTick(t) == [t EXCEPT !.pc = "later", !.cost = 0]
NextStage(t) ==
    IF t.pc = "cost" THEN {[t EXCEPT !.pc = "issue"]}
    ELSE IF t.pc = "issue" THEN {[t EXCEPT !.pc = "send"]}
    ELSE {}
Gained(u) == CopiesIn(u, tasks') > CopiesIn(u, tasks)
Lost(t) == CopiesIn(t, tasks') < CopiesIn(t, tasks)

\* C8: an UpdateCost tick handled while the agreement is tracked and the activity is
\* Running starts the debit note's future, and when that future ends, at whichever
\* await, with Ok or with Err, the next UpdateCost tick is scheduled.
C8_TickReschedules ==
    [][~panicked' =>
          \A t \in BagToSet(tasks) :
              (t.kind = "UpdateCost" /\ Lost(t)) =>
                  /\ (/\ t.pc = "later"
                      /\ Tracked(t.agreement_id)
                      /\ agreements[t.agreement_id].activities[t.activity_id] = "Running")
                     => Gained([t EXCEPT !.pc = "cost"])
                  /\ t.pc \in {"cost", "issue", "send"}
                     => \/ Gained(LaterTick(t))
                        \/ count' = count /\ \E u \in NextStage(t) : Gained(u)]_vars

\* A call of a tick failed, and the next tick of the Running activity is scheduled.
C8_Witness ==
    /\ count["failures"] >= 1
    /\ \A t \in BagToSet(tasks) : t.kind = "UpdateCost"
    /\ \A k \in Keys : finalNotes[k].issued = 0
    /\ \E t \in TasksOf("UpdateCost", "later") :
           /\ Tracked(t.agreement_id)
           /\ agreements[t.agreement_id].activities[t.activity_id] = "Running"

\* C7: with interfaces that eventually succeed, an activity does not stay Destroyed
\* for ever: the loop started by ActivityDestroyed goes on until the final debit
\* note is out and FinalizeActivity has made the activity Finalized.
C7_FinalNoteDelivered ==
    \A k \in Keys : []<>(agreements[k[1]].activities[k[2]] # "Destroyed")

\* C9: in both pollers the watermark never decreases from one step to the next, and
\* no event is dispatched more than once.
C9_WatermarkMonotone ==
    [][/\ after_timestamp' >= after_timestamp
       /\ lather_than' >= lather_than
       /\ \A p \in Pollers : \A e \in EventIds : dispatched'[p][e] <= 1]_vars

\* Both pollers have dispatched events, the invoice poller events of two instants.
C9_Witness ==
    /\ Len(events["invoice"]) = 2
    /\ events["invoice"][1].date = 1
    /\ events["invoice"][2].date = 2
    /\ dispatched["invoice"][1] = 1
    /\ dispatched["invoice"][2] = 1
    /\ after_timestamp = 2
    /\ Len(events["debit_note"]) = 1
    /\ dispatched["debit_note"][1] = 1
    /\ lather_than = 1

\* The watermark of poller p.
Watermark(p) == IF p = "invoice" THEN after_timestamp ELSE lather_than

\* C10: the step in which a poll fails leaves the poller's watermark unchanged and
\* dispatches nothing, the sleeping poller can only go back to polling, which it is
\* free to do, and every event a poll dispatches is new and dated strictly after the
\* poll's watermark, so that nothing dispatched before the failure is dispatched again.
C10_ErrorKeepsWatermark ==
    [][\A p \in Pollers :
          /\ (pollPc[p] = "poll" /\ pollPc'[p] = "sleep")
             => /\ Watermark(p)' = Watermark(p)
                /\ dispatched'[p] = dispatched[p]
                /\ outbox' = outbox
          /\ pollPc[p] = "sleep"
             => /\ pollPc'[p] \in {"sleep", "poll"}
                /\ Watermark(p)' = Watermark(p)
                /\ dispatched'[p] = dispatched[p]
                /\ ENABLED (IF p = "invoice" THEN InvoiceEventsRetry
                            ELSE DebitNoteEventsRetry)
          /\ \A e \in EventIds :
                 dispatched'[p][e] > dispatched[p][e]
                 => /\ dispatched[p][e] = 0
                    /\ events[p][e].date >= Watermark(p)
                    /\ pollPc[p] = "poll" => events[p][e].date > Watermark(p)]_vars

\* The invoice poller sleeps after a failed poll that followed the delivery of
\* events of two instants, with its watermark at the later one; a newer event waits.
C10_Witness ==
    /\ pollPc["invoice"] = "sleep"
    /\ Len(events["invoice"]) = 3
    /\ events["invoice"][1].date = 0
    /\ events["invoice"][2].date = 1
    /\ events["invoice"][3].date = 2
    /\ dispatched["invoice"][2] = 1
    /\ dispatched["invoice"][3] = 0
    /\ after_timestamp = 1

\* The reason on_offer_received gives for an offer it knows.
KnownReason(state) ==
    CASE state = "Active" -> "AlreadyExists"
      [] state = "Unsubscribed" -> "AlreadyUnsubscribed"
      [] state = "Expired" -> "Expired"

\* on_offer_received returns at once, leaving the store and every future alone.
Refused(o, reason) ==
    /\ reply' = Returned("on_offer_received", o, "False", reason)
    /\ offers' = offers
    /\ inflight' = inflight
    /\ propagated' = propagated

\* C11: an OfferReceived whose offer id is Active, Unsubscribed or Expired in the
\* store is answered Propagate::False with AlreadyExists, AlreadyUnsubscribed or
\* Expired, and nothing is stored or started for it.
C11_KnownOfferStops ==
    [][\A o \in OfferIds, valid \in BOOLEAN :
          (on_offer_received(o, valid, "Ok") /\ offers[o] # "NotFound")
          => Refused(o, KnownReason(offers[o]))]_vars

\* An expired offer was received and refused as Expired.
C11_Witness ==
    /\ msg.op = "on_offer_received"
    /\ offers[msg.id] = "Expired"
    /\ reply = Returned("on_offer_received", msg.id, "False", "Expired")

C13_OnlyFirstDeliveryPropagates ==
    [][\A o \in OfferIds :
          o \notin gone'
          => /\ propagated'[o] <= 1
             /\ (OfferCreated(o, "Ok") /\ offers[o] = "NotFound")
                => /\ reply' = Returned("on_offer_received", o, "True", "none")
                   /\ propagated'[o] = 1
             /\ \A valid \in BOOLEAN :
                    (on_offer_received(o, valid, "Ok") /\ propagated[o] = 1)
                    => Refused(o, "AlreadyExists")]_vars

\* The offer was delivered three times: stored once, then refused as AlreadyExists.
C13_Witness ==
    /\ calls["calls"] = 3
    /\ calls["failures"] = 0
    /\ own = {}
    /\ gone = {}
    /\ propagated = [o \in OfferIds |-> IF o = "O1" THEN 1 ELSE 0]
    /\ offers["O2"] = "NotFound"
    /\ msg = Call("on_offer_received", "O1", TRUE)
    /\ reply = Returned("on_offer_received", "O1", "False", "AlreadyExists")

\* C14: unsubscribe_offer turns an offer subscribed on this node into an
\* Unsubscribed tombstone, which stays, and an OfferReceived for it is answered
\* AlreadyUnsubscribed and leaves the store unchanged.
C14_SubscribeUnsubscribeReceive ==
    [][\A o \in own :
          /\ (unsubscribe_offer(o, "Ok") /\ offers[o] = "Active")
             => offers'[o] = "Unsubscribed"
          /\ (offers[o] = "Unsubscribed" /\ inflight[<<"remove_offer", o>>] = 0)
             => offers'[o] = "Unsubscribed" /\ inflight'[<<"remove_offer", o>>] = 0
          /\ \A valid \in BOOLEAN :
                 (on_offer_received(o, valid, "Ok") /\ offers[o] = "Unsubscribed")
                 => Refused(o, "AlreadyUnsubscribed")]_vars

\* subscribe_offer(O1), unsubscribe_offer(O1), both broadcast, then OfferReceived(O1).
C14_Witness ==
    /\ own = {"O1"}
    /\ offers["O1"] = "Unsubscribed"
    /\ gossipUnsubscribed = {}
    /\ broadcasts[<<"offer", "O1">>] = 1
    /\ broadcasts[<<"unsubscribe", "O1">>] = 1
    /\ msg = Call("on_offer_received", "O1", TRUE)
    /\ reply = Returned("on_offer_received", "O1", "False", "AlreadyUnsubscribed")

\* C15: once on_offer_unsubscribed has answered Propagate::True for an offer of
\* another node, no OfferReceived for that id is answered Propagate::True and the
\* handler never stores the offer again.
C15_UnsubscribedNeverStoredAgain ==
    [][\A o \in gossipUnsubscribed \ own :
          /\ propagated'[o] = propagated[o]
          /\ \A valid \in BOOLEAN :
                 on_offer_received(o, valid, "Ok")
                 => /\ reply'.op = "on_offer_received"
                    /\ reply'.id = o
                    /\ reply'.result = "False"
                    /\ inflight' = inflight]_vars

(***************************************************************************)
(* Deadline Tracker                                                        *)
(***************************************************************************)
Live(n) == IF entries[n] # NoEntry THEN 1 ELSE 0

\* C16: DeadlineElapsed is delivered at most once per lifetime of an entry.
\* Every entry that was tracked is accounted for exactly once: it is still
\* present, or it was removed by StopTracking, or it fired; an entry removed
\* by StopTracking has not fired (zero deliveries), an entry whose deadline
\* has come can fire, and once it fired it is gone, so that a StopTracking
\* that arrives afterwards finds nothing and no second event is produced.
C16_AtMostOncePerLifetime ==
    \A n \in NoteIds :
        /\ elapsed[n] + lifetimes[n].stopped + Live(n) = lifetimes[n].created
        /\ lifetimes[n].stopped = lifetimes[n].created => elapsed[n] = 0
        /\ elapsed[n] = lifetimes[n].created => ~Due(n)
        /\ Due(n) => ENABLED DeadlineElapsed(n)

\* One note fired once and its acceptance was processed without a second
\* event; the other was stopped before its deadline and never fired, although
\* the clock is past its deadline.
C16_Witness ==
    \E n, m \in NoteIds :
        /\ elapsed[n] = 1
        /\ lifetimes[n] = [created |-> 1, stopped |-> 0]
        /\ note[n].accepted = "processed"
        /\ n \notin acceptedInTime
        /\ lifetimes[m] = [created |-> 1, stopped |-> 1]
        /\ elapsed[m] = 0
        /\ m \in acceptedInTime
        /\ clock >= note[m].deadline

\* C17: no DeadlineElapsed is delivered for a debit note whose acceptance the
\* poller processed before the note's payment deadline.
C17_AcceptedNeverElapses ==
    \A n \in acceptedInTime : elapsed[n] = 0

(***************************************************************************)
(* Settlement                                                              *)
(***************************************************************************)
InvoicesToPay(q) == {q[k] : k \in 1..Len(q)}

\* C18: the step that processes InvoiceSettled for an invoice whose fetch
\* succeeded leaves the invoice's agreement untracked and every other agreement
\* as it was, takes every entry of the invoice (and nothing else) off
\* invoices_to_pay, the other entries keeping their order, and adds
\* exactly the invoice's amount to earnings; the step in which the fetch fails
\* changes none of agreements, invoices_to_pay and earnings.
C18_SettledReleasesAndEarns ==
    [][\A t \in TasksOf("InvoiceSettled", "get") :
          (tasks' = Finish(t) /\ ~panicked') =>
              IF count' = count
              THEN /\ ~agreements'[invoices[t.id].agreement_id].tracked
                   /\ \A b \in Agreements \ {invoices[t.id].agreement_id} :
                          agreements'[b] = agreements[b]
                   /\ t.id \notin InvoicesToPay(invoices_to_pay')
                   /\ invoices_to_pay' = SelectSeq(invoices_to_pay, LAMBDA j : j # t.id)
                   /\ earnings' = earnings + invoices[t.id].amount
              ELSE /\ count'["failures"] = count["failures"] + 1
                   /\ agreements' = agreements
                   /\ invoices_to_pay' = invoices_to_pay
                   /\ earnings' = earnings]_vars

\* An accepted invoice was settled: it is off invoices_to_pay and earned, its
\* agreement is released; and the fetch of a settlement has failed once.
C18_Witness ==
    /\ count["settled"] >= 1
    /\ count["accepted"] >= 1
    /\ count["failures"] >= 1
    /\ TasksOf("InvoiceSettled", "get") = {}
    /\ TasksOf("InvoiceAccepted", "get") = {}
    /\ invoices_to_pay = << >>
    /\ earnings > 0
    /\ \E i \in IssuedInvoices : ~Tracked(invoices[i].agreement_id)

(***************************************************************************)
(* Activity transitions                                                    *)
(***************************************************************************)
\* C19: an illegal activity transition is contained.  An ActivityDestroyed for
\* an activity of a tracked agreement that is not Running, and a
\* FinalizeActivity for an activity that is not Destroyed, leave the actor
\* running, every record of the ledger as it was and the futures of the other
\* activities scheduled.
C19_IllegalTransitionIsContained ==
    [][/\ \A a \in Agreements, x \in ActivityIds :
              (/\ ~activity_destroyed_ok(agreements[a], x)
               /\ ActivityDestroyed(a, x))
              => /\ ~panicked'
                 /\ agreements' = agreements
                 /\ tasks' = tasks
       /\ \A t \in TasksOf("Final", "finalize") :
              (/\ Tracked(t.agreement_id)
               /\ agreements[t.agreement_id].activities[t.activity_id] # "Destroyed"
               /\ FinalizeActivity(t))
              => /\ ~panicked'
                 /\ agreements' = agreements
                 /\ tasks' = Finish(t)]_vars

Forward(p, q) ==
    \/ q = p
    \/ <<p, q>> \in {<<"Absent", "Running">>, <<"Running", "Destroyed">>,
                     <<"Destroyed", "Finalized">>}

\* The step keeps the ledger record of agreement a.
KeepsRecord(a) ==
    /\ agreements[a].tracked
    /\ agreements'[a].tracked
    /\ agreements'[a].watch = agreements[a].watch

\* C20: within a record of the ledger the phase of each activity stays or
\* moves one step along Running -> Destroyed -> Finalized (never back, never
\* from Running to Finalized); a cost is recorded only by the step that
\* finalizes a Destroyed activity; and the summary taken for the invoice lists
\* the Finalized activities only and adds up their costs only.
C20_PhasesMoveForward ==
    [][/\ \A a \in Agreements, x \in ActivityIds :
              KeepsRecord(a) =>
                  /\ Forward(agreements[a].activities[x], agreements'[a].activities[x])
                  /\ agreements'[a].cost[x] # agreements[a].cost[x]
                     => /\ agreements[a].activities[x] = "Destroyed"
                        /\ agreements'[a].activities[x] = "Finalized"
       /\ \A u \in BagToSet(tasks') \ BagToSet(tasks) :
              (u.kind = "AgreementClosed" /\ u.pc = "issue") =>
                  /\ u.activities = {x \in ActivityIds :
                         agreements[u.agreement_id].activities[x] = "Finalized"}
                  /\ u.cost = SumCost(agreements[u.agreement_id].cost, u.activities)]_vars

\* A summary with a cost was taken of a record in which one activity is
\* Finalized and another one is not, after a duplicate ActivityCreated.
C20_Witness ==
    \E u \in TasksOf("AgreementClosed", "issue") :
        /\ u.cost > 0
        /\ Tracked(u.agreement_id)
        /\ \E x, y \in ActivityIds :
               /\ u.activities = {x}
               /\ agreements[u.agreement_id].activities[x] = "Finalized"
               /\ agreements[u.agreement_id].activities[y] \in {"Running", "Destroyed"}

(***************************************************************************)
(* AgreementBroken                                                         *)
(***************************************************************************)
QueuedClosed(a) == Task("AgreementClosed", "queued", a, NoId, 0, {}, 0, FALSE)

Ledger == <<agreements, invoices_to_pay, earnings, invoices>>

\* C21: AgreementBroken is AgreementClosed{send_terminate: false}.  Handling
\* AgreementBroken for a tracked agreement changes nothing of the ledger and
\* puts one AgreementClosed for the agreement in the mailbox; handling that
\* message leaves the engine with exactly the future that Handler<AgreementClosed>
\* starts for an AgreementClosed event of the agreement in the same state, the
\* one that waits for the activities, takes the summary, issues the invoice
\* and sends it.
C21_BrokenIsClosed ==
    [][/\ \A a \in Agreements :
              AgreementBroken(a) =>
                  /\ Tracked(a)
                  /\ Ledger' = Ledger
                  /\ tasks' = tasks (+) SetToBag({QueuedClosed(a)})
       /\ \A t \in TasksOf("AgreementClosed", "queued") :
              (/\ CopiesIn(t, tasks') < CopiesIn(t, tasks)
               /\ ~panicked'
               /\ Tracked(t.agreement_id))
              => /\ Ledger' = Ledger
                 /\ tasks' (+) SetToBag({t}) = Spawn(ClosedFuture(t.agreement_id))]_vars

\* A broken agreement's invoice was issued for its finalized activity and sent.
C21_Witness ==
    /\ TasksOf("AgreementClosed", "queued") = {}
    /\ \E i \in IssuedInvoices :
           /\ invoices[i].sent
           /\ invoices[i].amount > 0
           /\ invoices[i].activity_ids # {}

(***************************************************************************)
(* Volume paths                                                            *)
(***************************************************************************)
\* The volume path is a prefix of the container path that ends where a
\* component of the container path ends.
WholePrefix(volume, path) ==
    /\ Len(volume) <= Len(path)
    /\ \A k \in 1..Len(volume) : path[k] = volume[k]
    /\ Len(path) > Len(volume) => path[Len(volume) + 1] = "/"

Matching == {i \in 1..Len(vols) : WholePrefix(vols[i].path, container_path)}

\* What follows the volume path and the separator after it.
Remainder(volume, path) ==
    [k \in 1..(Len(path) - Len(volume) - 1) |-> path[Len(volume) + 1 + k]]

\* C22: resolve_path returns work_dir/<volume name>/<remainder> for the volume
\* with the longest path that is a whole-component prefix of the container
\* path, work_dir/<volume name> when the container path is the volume path,
\* and an error when no volume path is a whole-component prefix or when the
\* remainder starts with '/'.
C22_ResolvePath ==
    resolved # NotResolved =>
        IF Matching = {}
        THEN resolved = Err("not found in container")
        ELSE \E i \in Matching :
                 /\ \A j \in Matching : Len(vols[j].path) <= Len(vols[i].path)
                 /\ LET rest == Remainder(vols[i].path, container_path)
                        base == work_dir \o <<"/">> \o vols[i].name
                    IN  IF container_path = vols[i].path
                        THEN resolved = Ok(base)
                        ELSE IF Len(rest) > 0 /\ rest[1] = "/"
                        THEN resolved = Err("invalid path format")
                        ELSE resolved = Ok(base \o <<"/">> \o rest)

\* Two volumes, one mounted inside the other, and a path below the inner one:
\* it resolved under the inner volume.
C22_Witness ==
    /\ Len(vols) = 2
    /\ Matching = {1, 2}
    /\ Len(vols[1].path) > 0
    /\ Len(vols[2].path) > Len(vols[1].path)
    /\ Len(container_path) > Len(vols[2].path) + 1
    /\ resolved = Ok(work_dir \o <<"/">> \o vols[2].name \o <<"/">>
                     \o Remainder(vols[2].path, container_path))

(***************************************************************************)
(* The periodic chain of debit notes                                       *)
(***************************************************************************)
Stopped(a, x) == Tracked(a) /\ agreements[a].activities[x] \in {"Destroyed", "Finalized"}

\* The UpdateCost ticks of activity x of agreement a: waiting, or being handled.
Waiting(bag, a, x) ==
    {t \in BagToSet(bag) : t.kind = "UpdateCost" /\ t.pc = "later"
                           /\ t.agreement_id = a /\ t.activity_id = x}

Handled(bag, a, x) ==
    {t \in BagToSet(bag) : t.kind = "UpdateCost" /\ t.pc # "later"
                           /\ t.agreement_id = a /\ t.activity_id = x}

\* C23: an UpdateCost tick that arrives for an activity that is Destroyed or
\* Finalized ends there: no debit note's future is started and no further tick
\* is scheduled.  So once the activity is destroyed no tick of its chain starts
\* a debit note any more, and what is left of the chain is the tick that was
\* pending (or the one a debit note in progress schedules when it completes).
C23_StoppedChainEnds ==
    [][\A a \in Agreements, x \in ActivityIds :
          Stopped(a, x) =>
              /\ \A t \in Waiting(tasks, a, x) :
                     UpdateCost(t) => tasks' = Finish(t) /\ finalNotes' = finalNotes
              /\ \A u \in Handled(tasks', a, x) :
                     CopiesIn(u, tasks') > CopiesIn(u, tasks)
                     => \E t \in Handled(tasks, a, x) :
                            CopiesIn(t, tasks') < CopiesIn(t, tasks)]_vars

\* The chain of a destroyed activity has ended while its final debit note
\* is still on its way.
C23_Witness ==
    /\ ~panicked
    /\ \E a \in Agreements, x \in ActivityIds :
           /\ Stopped(a, x)
           /\ Waiting(tasks, a, x) = {}
           /\ Handled(tasks, a, x) = {}
           /\ \E t \in BagToSet(tasks) :
                  t.kind = "Final" /\ t.agreement_id = a /\ t.activity_id = x

(***************************************************************************)
(* ActivityCreated                                                         *)
(***************************************************************************)
CostTick(a, x) == Task("UpdateCost", "later", a, x, 0, {}, 0, FALSE)

\* C24: ActivityCreated for an agreement that is not tracked changes nothing
\* (no activity registered, no tick scheduled, no debit note's future), and a
\* chain of debit notes of an activity only ever starts with an ActivityCreated
\* of a tracked agreement; ActivityCreated for a tracked agreement leaves the
\* activity registered as Running and schedules exactly one UpdateCost tick.
C24_ActivityCreatedRegisters ==
    [][\A a \in Agreements, x \in ActivityIds :
          /\ ActivityCreatedNotRegistered(a, x)
             => /\ agreements' = agreements
                /\ tasks' = tasks
                /\ finalNotes' = finalNotes
          /\ CopiesIn(CostTick(a, x), tasks') > CopiesIn(CostTick(a, x), tasks)
             => \/ Tracked(a) /\ count'["events"] = count["events"] + 1
                \/ \E t \in Handled(tasks, a, x) : CopiesIn(t, tasks') < CopiesIn(t, tasks)
          /\ ActivityCreated(a, x)
             => /\ agreements'[a].activities[x] = "Running"
                /\ tasks' = tasks (+) SetToBag({CostTick(a, x)})]_vars

Left(t) == CopiesIn(t, tasks') < CopiesIn(t, tasks)
Came(u) == CopiesIn(u, tasks') > CopiesIn(u, tasks)

\* C26: FinalizeActivity is sent to the actor only by a final debit note's
\* future whose note was issued and sent (and whose deadline was registered
\* when it has one), it carries the cost computed in the attempt that
\* delivered the note, and the future of a delivered final debit note goes on
\* to FinalizeActivity with that cost and to nothing else, so that the cost
\* recorded as Finalized is the amount of the final debit note delivered.
C26_FinalizeAfterDeliveredNote ==
    [][/\ \A u \in BagToSet(tasks') :
              (u.kind = "Final" /\ u.pc = "finalize" /\ Came(u)) =>
                  \E t \in BagToSet(tasks) :
                      /\ Left(t)
                      /\ t = [u EXCEPT !.pc = IF u.payment_deadline THEN "track" ELSE "send"]
                      /\ finalNotes'[<<u.agreement_id, u.activity_id>>].sent >= 1
                      /\ u.cost \in Costs
       /\ \A t \in TasksOf("Final", "track") :
              (Left(t) /\ ~panicked') => Came([t EXCEPT !.pc = "finalize"])
       /\ \A t \in TasksOf("Final", "finalize") :
              (Left(t) /\ ~panicked') =>
                  /\ \A u \in BagToSet(tasks') : ~Came(u)
                  /\ (Tracked(t.agreement_id)
                      /\ agreements[t.agreement_id].activities[t.activity_id] = "Destroyed")
                     => /\ agreements'[t.agreement_id].activities[t.activity_id] = "Finalized"
                        /\ agreements'[t.agreement_id].cost[t.activity_id] = t.cost]_vars

(***************************************************************************)
(* SendInvoice                                                             *)
(***************************************************************************)
\* C27: SendInvoice is dispatched without awaiting.  The step in which the
\* invoice is issued ends the future of Handler<AgreementClosed> and leaves one
\* SendInvoice for the invoice just issued; a failing send_invoice keeps only
\* that SendInvoice retrying, and while it does the actor accepts the events of
\* the other agreements; every SendInvoice carries the id of an issued invoice
\* of its agreement.
C27_SendInvoiceNotAwaited ==
    /\ [][/\ Len(invoices') > Len(invoices) =>
                 \E t \in TasksOf("AgreementClosed", "issue") :
                     /\ Left(t)
                     /\ \A u \in BagToSet(tasks') :
                            Came(u) => /\ u.kind = "SendInvoice"
                                       /\ u.id = Len(invoices')
                                       /\ CopiesIn(u, tasks') = CopiesIn(u, tasks) + 1
          /\ \A t \in TasksOf("SendInvoice", "send") :
                 SendInvoiceErr(t) => tasks' = tasks /\ invoices' = invoices]_vars
    /\ [](\A t \in TasksOf("SendInvoice", "send") :
             /\ t.id \in 1..Len(invoices)
             /\ invoices[t.id].agreement_id = t.agreement_id
             /\ \A b \in Agreements \ {t.agreement_id} :
                    (CanAccept /\ ~panicked) =>
                        /\ ENABLED AgreementApproved(b)
                        /\ Tracked(b) => /\ ENABLED AgreementClosed(b)
                                         /\ \A x \in ActivityIds :
                                                ENABLED ActivityCreated(b, x))

\* send_invoice has failed for an issued invoice, whose SendInvoice is still
\* retrying with no AgreementClosed future left, and an activity of another
\* agreement was accepted meanwhile.
C27_Witness ==
    /\ count["failures"] >= 1
    /\ \E t \in TasksOf("SendInvoice", "send") :
           /\ ~invoices[t.id].sent
           /\ \A u \in BagToSet(tasks) :
                  u.kind = "AgreementClosed" => u.agreement_id # t.agreement_id
           /\ \E b \in Agreements \ {t.agreement_id} :
                  /\ Tracked(b)
                  /\ agreements[b].watch > invoices[t.id].watch
                  /\ \E x \in ActivityIds : agreements[b].activities[x] = "Running"

(***************************************************************************)
(* IssueInvoice and SendInvoice                                            *)
(***************************************************************************)
Issuing(a) == \E t \in TasksOf("AgreementClosed", "issue") : t.agreement_id = a

\* C28: IssueInvoice and SendInvoice are guaranteed-delivery loops: when the
\* payment interface accepts in the end, an invoice that IssueInvoice was asked
\* to issue for an agreement is eventually issued and eventually sent.
C28_InvoiceIssuedAndSent ==
    \A a \in Agreements :
        Issuing(a) ~> \E i \in IssuedInvoices :
                          invoices[i].agreement_id = a /\ invoices[i].sent

\* C29: subscribe_offer returns success exactly when the offer was persisted
\* locally. When create_offer fails the call returns an error, the store is as
\* it was and no broadcast is attempted; when it succeeds the offer is stored
\* and broadcast_offer is called; whatever broadcast_offer answers, the call
\* returns Ok and the store is left as it is. A broadcast is only ever awaited
\* for an offer this node persisted.
C29_SubscribeReturnsWhatWasPersisted ==
    /\ [][\A o \in OfferIds :
            /\ (\E dao \in DaoResults : subscribe_offer(o, dao)) =>
                  IF offers[o] = "NotFound" /\ offers'[o] = "Active"
                  THEN /\ inflight' = Suspend("broadcast_offer", o)
                       /\ reply' = reply
                  ELSE /\ reply'.op = "subscribe_offer" /\ reply'.id = o
                       /\ reply'.result = "Err"
                       /\ offers' = offers
                       /\ inflight' = inflight
                       /\ broadcasts' = broadcasts
            /\ (\E sent \in DaoResults : OfferBroadcast(o, sent)) =>
                  /\ reply' = Returned("subscribe_offer", o, "Ok", "none")
                  /\ offers' = offers]_vars
    /\ [](\A o \in OfferIds :
             inflight[<<"broadcast_offer", o>>] + broadcasts[<<"offer", o>>] > 0 => o \in own)

\* subscribe_offer returned Ok although broadcast_offer failed; the offer is stored.
C29_Witness ==
    \E o \in OfferIds :
        /\ reply = Returned("subscribe_offer", o, "Ok", "none")
        /\ inflight[<<"broadcast_offer", o>>] = 0
        /\ broadcasts[<<"offer", o>>] = 0
        /\ offers[o] = "Active"

\* C30: unsubscribe_offer broadcasts only after the offer was marked
\* unsubscribed locally. When marking fails (already unsubscribed, expired,
\* not found, database error) the call returns an error, nothing is stored and
\* no broadcast is sent; so an offer's unsubscription is broadcast at most once
\* however often the call is made. Whatever broadcast_unsubscribe answers, the
\* call returns Ok and the tombstone stays.
C30_UnsubscribeBroadcastsAfterMark ==
    /\ [][\A o \in OfferIds :
            /\ (\E dao \in DaoResults : unsubscribe_offer(o, dao)) =>
                  IF offers[o] = "Active" /\ offers'[o] = "Unsubscribed"
                  THEN /\ inflight' = Suspend("broadcast_unsubscribe", o)
                       /\ reply' = reply
                  ELSE /\ reply'.op = "unsubscribe_offer" /\ reply'.id = o
                       /\ reply'.result = "Err"
                       /\ offers' = offers
                       /\ inflight' = inflight
                       /\ broadcasts' = broadcasts
            /\ (\E sent \in DaoResults : UnsubscribeBroadcast(o, sent)) =>
                  /\ reply' = Returned("unsubscribe_offer", o, "Ok", "none")
                  /\ offers'[o] = "Unsubscribed"]_vars
    /\ [](\A o \in OfferIds :
             inflight[<<"broadcast_unsubscribe", o>>] + broadcasts[<<"unsubscribe", o>>] <= 1)

\* A second unsubscribe_offer for an offer whose unsubscription was broadcast
\* returned AlreadyUnsubscribed, and nothing more was sent.
C30_Witness ==
    \E o \in OfferIds :
        /\ reply = Returned("unsubscribe_offer", o, "Err", "AlreadyUnsubscribed")
        /\ broadcasts[<<"unsubscribe", o>>] = 1
        /\ inflight[<<"broadcast_unsubscribe", o>>] = 0
        /\ offers[o] = "Unsubscribed"

\* C31: an OfferReceived for an id that is NotFound locally and is not the hash
\* of the offer's content is answered Propagate::False(Error), is not counted
\* as propagated and is not stored (no create_offer is even started); a failed
\* state lookup and a failed store write are answered Propagate::False(Error)
\* too, never Propagate::True, and store nothing.
C31_ForgedOrFailedIsRejected ==
    [][\A o \in OfferIds :
        /\ (offers[o] = "NotFound" /\ on_offer_received(o, FALSE, "Ok")) =>
              /\ reply' = Returned("on_offer_received", o, "False", "Error")
              /\ offers' = offers /\ inflight' = inflight /\ propagated' = propagated
        /\ (\E valid \in BOOLEAN : on_offer_received(o, valid, "Err")) =>
              /\ reply' = Returned("on_offer_received", o, "False", "Error")
              /\ offers' = offers /\ inflight' = inflight /\ propagated' = propagated
        /\ OfferCreated(o, "Err") =>
              /\ reply' = Returned("on_offer_received", o, "False", "Error")
              /\ offers' = offers /\ propagated' = propagated]_vars

\* A forged offer for an unknown id was just rejected: no database call has
\* failed, the answer is Error and the id is still unknown.
C31_Witness ==
    \E o \in OfferIds :
        /\ msg = Call("on_offer_received", o, FALSE)
        /\ reply = Returned("on_offer_received", o, "False", "Error")
        /\ calls["failures"] = 0
        /\ offers[o] = "NotFound"
        /\ inflight[<<"create_offer", o>>] = 0

\* The answer the OfferUnsubscribed handler owes for an offer it could not mark.
RefusedUnsubscribe(o, dao) ==
    Returned("on_offer_unsubscribed", o, "False",
             IF dao = "Err" THEN "Error"
             ELSE IF offers[o] = "Expired" THEN "Expired"
             ELSE IF offers[o] = "Unsubscribed" THEN "AlreadyUnsubscribed"
             ELSE "Error")

\* C32: the OfferUnsubscribed handler returns Propagate::True exactly when
\* mark_offer_as_unsubscribed succeeded; it then removes the full record and
\* returns True whether or not the removal succeeds. When marking fails the
\* store is as it was and the answer is Propagate::False with Expired,
\* AlreadyUnsubscribed or Error. A second OfferUnsubscribed for an offer is
\* never answered Propagate::True.
C32_UnsubscribedPropagatesOnce ==
    [][\A o \in OfferIds :
        /\ \A dao \in DaoResults :
              on_offer_unsubscribed(o, dao) =>
                  IF dao = "Ok" /\ offers[o] = "Active"
                  THEN /\ offers'[o] = "Unsubscribed"
                       /\ inflight' = Suspend("remove_offer", o)
                       /\ reply' = reply
                  ELSE /\ offers' = offers
                       /\ inflight' = inflight
                       /\ reply' = RefusedUnsubscribe(o, dao)
        /\ \A dao \in DaoResults :
              OfferRemoved(o, dao) =>
                  /\ reply' = Returned("on_offer_unsubscribed", o, "True", "none")
                  /\ offers'[o] = IF dao = "Ok" THEN "NotFound" ELSE offers[o]
                  /\ o \notin gossipUnsubscribed]_vars

\* C33: the OfferUnsubscribed handler never removes the record of an offer
\* subscribed on this node with subscribe_offer: whatever calls and inbound
\* messages came, every such offer still has its record in the store (Active,
\* or the Unsubscribed tombstone; Expired once its time has passed).
C33_OwnOfferKeepsItsRecord ==
    \A o \in own : offers[o] \in {"Active", "Unsubscribed", "Expired"}

\* The UpdateCost ticks of activity x of agreement a, pending or being handled.
Ticks(a, x) == Waiting(tasks, a, x) \cup Handled(tasks, a, x)

\* C34: for every activity there is at most one UpdateCost tick, pending or
\* being handled, at any time: a repeated ActivityCreated for an activity that
\* is registered starts no second chain of debit notes.
C34_OneChainPerActivity ==
    \A a \in Agreements, x \in ActivityIds :
        /\ Cardinality(Ticks(a, x)) <= 1
        /\ \A t \in Ticks(a, x) : CopiesIn(t, tasks) = 1

\* The activities registered under agreement a.
Registered(a) == {x \in ActivityIds : agreements[a].activities[x] # "Absent"}

\* C35: when an invoice is issued for an agreement, its activity_ids contains
\* every activity registered by ActivityCreated under that agreement, those
\* registered after AgreementClosed or after the watch resolved included.
C35_InvoiceCoversEveryActivity ==
    [][Len(invoices') > Len(invoices) =>
          LET inv == invoices'[Len(invoices')]
          IN Tracked(inv.agreement_id) => Registered(inv.agreement_id) \subseteq inv.activity_ids]_vars

\* C36: AgreementApproved for an agreement id that is already tracked leaves
\* the ledger state recorded for it as it was: the activities registered,
\* their phases and their finalized costs.
C36_ReapprovalKeepsLedger ==
    [][\A a \in Agreements :
          (Tracked(a) /\ AgreementApproved(a)) =>
              /\ agreements'[a].activities = agreements[a].activities
              /\ agreements'[a].cost = agreements[a].cost]_vars

(***************************************************************************)
(* invoices_to_pay and earnings                                            *)
(***************************************************************************)
\* C37: invoices_to_pay holds only invoices that are not yet settled: once an
\* invoice's InvoiceSettled has been processed the invoice is not in the list,
\* however the get_invoice calls of the InvoiceAccepted and InvoiceSettled
\* handlers complete; and no invoice is in the list twice.
C37_ToPayMeansNotSettled ==
    /\ \A k \in 1..Len(invoices_to_pay) : CopiesIn(invoices_to_pay[k], settled) = 0
    /\ \A j, k \in 1..Len(invoices_to_pay) :
           invoices_to_pay[j] = invoices_to_pay[k] => j = k

\* The sum of the amounts of the invoices in ids.
RECURSIVE SumAmounts(_)
SumAmounts(ids) ==
    IF ids = {} THEN 0
    ELSE LET i == CHOOSE j \in ids : TRUE
         IN invoices[i].amount + SumAmounts(ids \ {i})

\* C38: settlement replay is safe. The step that processes InvoiceSettled for
\* an invoice whose settlement was processed before leaves agreements,
\* invoices_to_pay and earnings unchanged; so earnings is always the sum of
\* the amounts of the distinct invoices settled.
C38_SettlementReplayIsSafe ==
    /\ [][\A t \in TasksOf("InvoiceSettled", "get") :
            (CopiesIn(t.id, settled) >= 1 /\ InvoiceSettledOk(t)) =>
                /\ agreements' = agreements
                /\ invoices_to_pay' = invoices_to_pay
                /\ earnings' = earnings]_vars
    /\ [](earnings = SumAmounts(BagToSet(settled)))

(***************************************************************************)
(* Abort handles of the TransferService                                    *)
(***************************************************************************)
\* The transfers in flight: started and not ended, their handle not aborted.
InFlight == {h \in TransferIds : transfers[h] = "transfer" /\ h \notin aborted}

\* The transfers that ended with Ok and whose RemoveAbortHandle is on its way.
Ending == {h \in TransferIds : transfers[h] = "remove"}

\* C39: abort_handles holds exactly the abort handles of the transfers in
\* flight: a handle is in the set before its transfer starts, and it leaves
\* the set when the transfer ends, by success (with RemoveAbortHandle), by
\* failure or by abort; AbortTransfers aborts every handle of the set and
\* leaves the set empty.
C39_AbortHandlesAreInFlight ==
    /\ [][AbortTransfers => abort_handles' = {} /\ abort_handles \subseteq aborted']_vars
    /\ [](/\ InFlight \subseteq abort_handles
          /\ abort_handles \subseteq InFlight \cup Ending)

(***************************************************************************)
(* Propagation of an offer through the network                             *)
(***************************************************************************)
Quiet == \A n \in Nodes : wire[n] = 0 /\ saving[n] = 0

\* C40: offer propagation terminates. In a network of finitely many nodes
\* that forward the offer only on Propagate::True, and with the offer never
\* unsubscribed, every node returns Propagate::True for the offer at most
\* once (the subscribing node never), and after the one subscribe_offer
\* broadcast eventually no message for the offer is in flight, for good.
C40_PropagationTerminates ==
    /\ [](\A n \in Nodes : forwarded[n] <= IF n = origin THEN 0 ELSE 1)
    /\ <>[]Quiet

\* The offer went round: every node has it, each node other than the
\* subscribing one forwarded it once, and nothing is in flight.
C40_Witness ==
    /\ origin # NoNode
    /\ \A n \in Nodes \ {origin} : forwarded[n] = 1 /\ stores[n] # "NotFound"
    /\ Quiet

====
